---- MODULE Spec2Model ----
(***************************************************************************)
(* Iris smart glasses: the voice-command state machine (core/parser.py),   *)
(* the interrupt queue (core/server.py), the orchestrator loop (main.py)   *)
(* and the device registry (core/discovery.py).                            *)
(*                                                                         *)
(* Transcripts are Python strings; they are modelled as sequences of       *)
(* one-character strings so that startswith, "in", slicing and strip are   *)
(* computed as the code computes them.  Time is a discrete clock `now'.    *)
(***************************************************************************)
EXTENDS Integers, Sequences, FiniteSets, TLC

VARIABLES
    now,                \* the wall clock read by datetime.now()
    current_state,      \* CommandParser.current_state
    last_command_time,  \* CommandParser.last_command_time
    state_data,         \* CommandParser.state_data (key -> value)
    result,             \* the ParseResult returned by the last parse()
    timeout_result,     \* the value returned by the last check_timeout()
    op,                 \* history: the operation performed last
    pre,                \* history: parser state and idle times before that operation
    last_call,          \* history: time of the last parse() call or _transition_to
    last_heard,         \* history: time of the last non-empty parse() or _transition_to
    idle_returns,       \* history: IDLE results of check_timeout since the last parse()
    flow,               \* history: progress of the parse() calls through the todo-add scenario
    written,            \* history: the keys stored since the parser entered current_state
    queue,              \* InterruptManager._queue: the queued interrupts, oldest first
    running,            \* InterruptManager._running
    ppc,                \* per producer thread: where it is inside push()
    pint,               \* per producer thread: the interrupt it is pushing
    push_ret,           \* per producer thread: what its last push() returned
    dpc,                \* the clear_queue() caller: where it is inside clear_queue()
    count,              \* clear_queue's local counter
    clear_ret,          \* what the last clear_queue() returned
    next_id,            \* number of Interrupt objects created so far
    accepted,           \* history: the interrupts queued, in the order of their put
    handled,            \* history: the interrupts polled by the consumer, in that order
    qop,                \* history: the queue operation performed last
    qpre,               \* history: the queue as that operation found it
    clear_taken,        \* history: the interrupts removed by the clear_queue() in progress
    clear_start,        \* history: the queue length when that clear_queue() began
    clear_alone,        \* history: no push or poll took effect during that clear_queue()
    mock,               \* DeviceRegistry.mock
    devices,            \* DeviceRegistry._devices: device_type -> DiscoveredDevice
    order,              \* the insertion order of the keys of DeviceRegistry._devices
    rop,                \* history: the registry read performed last and what it returned
    config,             \* DeviceRegistry.config['manual_devices'], in the order of the dict
    loader,             \* discover_all: where _load_manual_devices is in its loop
    pc,                 \* main_loop: the statement the loop has reached
    polled,             \* history: the queue as the latest poll of the loop found it
    device_cursor,      \* main_loop's device_cursor
    mop,                \* history: the step of the loop performed last
    waiter,             \* the caller of wait_for_device: where it is and what came of the call
    client,             \* history: the latest IoTClient.send_command and what came of it
    screen,             \* the screen the Display was last told to show
    teardown,           \* history: the steps of main_loop's finally block run so far
    cause,              \* history: what ended the loop, a signal or an exception
    scan,               \* DeviceRegistry._scan_thread and _stop_event, and the worker's place
    todos,              \* TodoList.todos: the items, each a text and a done flag
    cursor_index,       \* TodoList.cursor_index
    top,                \* history: the latest TodoList operation and what came of it
    dictated            \* history: what the visits to TODO_ADD were dictated

parserVars == <<current_state, last_command_time, state_data, result, timeout_result,
                op, pre, last_call, last_heard, idle_returns, flow, written>>

queueVars == <<queue, running, ppc, pint, push_ret, dpc, count, clear_ret, next_id,
               accepted, handled, qop, qpre, clear_taken, clear_start, clear_alone>>

regVars == <<mock, devices, order, rop, config, loader>>

mainVars == <<pc, polled, device_cursor, mop>>

dispVars == <<screen, teardown, cause>>

todoVars == <<todos, cursor_index, top>>

svcVars == <<waiter, client, dispVars, scan, todoVars, dictated>>

----------------------------------------------------------------------------
(* Bounds of the model *)

MaxTime == 4
TimeoutSeconds == 2
MaxQueueSize == 2
StaleWindow == 2
MaxInterrupts == 3
WaitTimeout == 2

----------------------------------------------------------------------------
(* String literals of the source, as character sequences *)

EmptyStr == <<>>
S_hey_iris == <<"h", "e", "y", " ", "i", "r", "i", "s">>
S_iris_ == <<"i", "r", "i", "s", " ">>
S_iris_end == <<"i", "r", "i", "s", " ", "e", "n", "d">>
S_todo == <<"t", "o", "d", "o">>
S_add == <<"a", "d", "d">>
S_list == <<"l", "i", "s", "t">>
S_instructions == <<"i", "n", "s", "t", "r", "u", "c", "t", "i", "o", "n", "s">>
S_translation == <<"t", "r", "a", "n", "s", "l", "a", "t", "i", "o", "n">>
S_weather == <<"w", "e", "a", "t", "h", "e", "r">>
S_connect == <<"c", "o", "n", "n", "e", "c", "t">>
S_connect_ == <<"c", "o", "n", "n", "e", "c", "t", " ">>
S_back == <<"b", "a", "c", "k">>
S_buy_milk == <<"b", "u", "y", " ", "m", "i", "l", "k">>
S_confirm == <<"c", "o", "n", "f", "i", "r", "m">>
S_cancel == <<"c", "a", "n", "c", "e", "l">>
S_iris_confirm == <<"i", "r", "i", "s", " ", "c", "o", "n", "f", "i", "r", "m">>
S_iris_buy_milk == <<"i", "r", "i", "s", " ", "b", "u", "y", " ", "m", "i", "l", "k">>
S_end == <<"e", "n", "d">>
S_up == <<"u", "p">>
S_down == <<"d", "o", "w", "n">>
S_cross == <<"c", "r", "o", "s", "s">>
S_uncross == <<"u", "n", "c", "r", "o", "s", "s">>
S_connect_light == <<"c", "o", "n", "n", "e", "c", "t", " ", "l", "i", "g", "h", "t">>
S_send_ == <<"s", "e", "n", "d", " ">>
S_send_hi == <<"s", "e", "n", "d", " ", "h", "i">>
S_on == <<"o", "n">>
S_off == <<"o", "f", "f">>
S_low == <<"l", "o", "w">>
S_high == <<"h", "i", "g", "h">>
S_one == <<"o", "n", "e">>
S_two == <<"t", "w", "o">>
S_three == <<"t", "h", "r", "e", "e">>
S_four == <<"f", "o", "u", "r">>
S_five == <<"f", "i", "v", "e">>
S_six == <<"s", "i", "x">>
S_seven == <<"s", "e", "v", "e", "n">>
S_eight == <<"e", "i", "g", "h", "t">>
S_nine == <<"n", "i", "n", "e">>
S_1 == <<"1">>
S_2 == <<"2">>
S_3 == <<"3">>
S_4 == <<"4">>
S_5 == <<"5">>
S_6 == <<"6">>
S_7 == <<"7">>
S_8 == <<"8">>
S_9 == <<"9">>
S_hello_hey_iris == <<"h", "e", "l", "l", "o", " ", "h", "e", "y", " ", "i", "r", "i", "s">>
S_iris_hey_iris == <<"i", "r", "i", "s", " ", "h", "e", "y", " ", "i", "r", "i", "s">>
S_iris_todo == <<"i", "r", "i", "s", " ", "t", "o", "d", "o">>
S_ok_iris_end == <<"o", "k", " ", "i", "r", "i", "s", " ", "e", "n", "d">>
S_iris_end_now == <<"i", "r", "i", "s", " ", "e", "n", "d", " ", "n", "o", "w">>
S_end_now == <<"e", "n", "d", " ", "n", "o", "w">>
S_light == <<"l", "i", "g", "h", "t">>
S_hi == <<"h", "i">>
S_iris_high == <<"i", "r", "i", "s", " ", "h", "i", "g", "h">>

----------------------------------------------------------------------------
(* Python str operations *)

StartsWith(s, p) == Len(s) >= Len(p) /\ SubSeq(s, 1, Len(p)) = p

\* p in s
Contains(s, p) == \E i \in 1..(Len(s) - Len(p) + 1) : SubSeq(s, i, i + Len(p) - 1) = p

\* s[n:]
SliceFrom(s, n) == SubSeq(s, n + 1, Len(s))

RECURSIVE LStrip(_)
LStrip(s) == IF s # <<>> /\ Head(s) = " " THEN LStrip(Tail(s)) ELSE s

RECURSIVE RStrip(_)
RStrip(s) == IF s # <<>> /\ s[Len(s)] = " " THEN RStrip(SubSeq(s, 1, Len(s) - 1)) ELSE s

\* s.strip(), whitespace being the space character
Strip(s) == RStrip(LStrip(s))

----------------------------------------------------------------------------
(* core/parser.py: State, ParseResult *)

None == "None"

States == {"IDLE", "MAIN_MENU", "TODO_MENU", "TODO_LIST", "TODO_ADD", "TODO_INSTRUCTIONS",
           "TRANSLATION", "DEVICE_LIST", "CONNECTED_LIGHT", "CONNECTED_FAN",
           "CONNECTED_MOTION", "CONNECTED_DISTANCE", "CONNECTED_GLASSES"}

\* a slip: the todo list left out of the states that time out
TIMEOUT_STATES_NoTodoList == {"MAIN_MENU", "DEVICE_LIST"}

TIMEOUT_STATES == {"MAIN_MENU", "TODO_LIST", "DEVICE_LIST"}

\* a slip: the custom timeout of TODO_ADD going to IDLE like the plain ones
CUSTOM_TIMEOUT_STATES_ToIdle == [s \in {"TODO_ADD"} |-> "IDLE"]

CUSTOM_TIMEOUT_STATES == [s \in {"TODO_ADD"} |-> "TODO_LIST"]

NO_TIMEOUT_STATES == {"IDLE", "TRANSLATION", "CONNECTED_LIGHT", "CONNECTED_FAN",
                      "CONNECTED_MOTION", "CONNECTED_DISTANCE", "CONNECTED_GLASSES"}

\* a dict without entries
NoData == [k \in {} |-> <<>>]

ParseResult(new_state, action, data) ==
    [new_state |-> new_state, action |-> action, data |-> data]

EmptyResult == ParseResult(None, None, NoData)

\* what a per-state parser hands back: its ParseResult and the state_data it leaves
Handled(res, sd) == [res |-> res, sd |-> sd]

\* self.state_data[key] = value
SetData(sd, key, value) == [k \in (DOMAIN sd) \cup {key} |-> IF k = key THEN value ELSE sd[k]]

\* self.state_data.get(key, default)
GetData(sd, key, default) == IF key \in DOMAIN sd THEN sd[key] ELSE default

StripIrisPrefix(transcript) ==
    IF transcript = EmptyStr THEN transcript
    ELSE IF StartsWith(transcript, S_hey_iris) THEN transcript
    ELSE IF StartsWith(transcript, S_iris_) THEN Strip(SliceFrom(transcript, 5))
    ELSE transcript

\* a slip: the number words are left as they are
NormalizeNumberWord_Identity(transcript) == transcript

NormalizeNumberWord(transcript) ==
    CASE transcript = S_one   -> S_1
      [] transcript = S_two   -> S_2
      [] transcript = S_three -> S_3
      [] transcript = S_four  -> S_4
      [] transcript = S_five  -> S_5
      [] transcript = S_six   -> S_6
      [] transcript = S_seven -> S_7
      [] transcript = S_eight -> S_8
      [] transcript = S_nine  -> S_9
      [] OTHER -> transcript

DigitStrings == {S_1, S_2, S_3, S_4, S_5, S_6, S_7, S_8, S_9}

\* int(normalized) for a one-digit string
DigitValue(d) ==
    CASE d = S_1 -> 1 [] d = S_2 -> 2 [] d = S_3 -> 3 [] d = S_4 -> 4 [] d = S_5 -> 5
      [] d = S_6 -> 6 [] d = S_7 -> 7 [] d = S_8 -> 8 [] d = S_9 -> 9

\* a slip: transcript.startswith("hey iris") for "hey iris" in transcript
ParseIdle_Prefix(transcript, sd) ==
    IF StartsWith(transcript, S_hey_iris)
    THEN Handled(ParseResult("MAIN_MENU", None, NoData), sd)
    ELSE Handled(EmptyResult, sd)

ParseIdle(transcript, sd) ==
    IF Contains(transcript, S_hey_iris)
    THEN Handled(ParseResult("MAIN_MENU", None, NoData), sd)
    ELSE Handled(EmptyResult, sd)

\* the main menu as test_menu_navigation expects it: 'todo' opens the todo list
ParseMainMenu_TodoList(transcript, sd) ==
    LET normalized == NormalizeNumberWord(transcript) IN
    IF normalized \in {S_todo, S_1} \/ transcript \in {S_todo, S_one}
    THEN Handled(ParseResult("TODO_LIST", None, NoData), sd)
    ELSE IF normalized \in {S_weather, S_2} \/ transcript \in {S_weather, S_translation, S_two}
    THEN Handled(ParseResult("TRANSLATION", None, NoData), sd)
    ELSE IF normalized \in {S_connect, S_3} \/ transcript \in {S_connect, S_three}
    THEN Handled(ParseResult("DEVICE_LIST", None, NoData), sd)
    ELSE IF transcript = S_back
    THEN Handled(ParseResult("IDLE", None, NoData), sd)
    ELSE Handled(EmptyResult, sd)

ParseMainMenu(transcript, sd) ==
    LET normalized == NormalizeNumberWord(transcript) IN
    IF normalized \in {S_todo, S_1} \/ transcript \in {S_todo, S_one}
    THEN Handled(ParseResult("TODO_MENU", None, NoData), sd)
    ELSE IF normalized \in {S_weather, S_2} \/ transcript \in {S_weather, S_translation, S_two}
    THEN Handled(ParseResult("TRANSLATION", None, NoData), sd)
    ELSE IF normalized \in {S_connect, S_3} \/ transcript \in {S_connect, S_three}
    THEN Handled(ParseResult("DEVICE_LIST", None, NoData), sd)
    ELSE IF transcript = S_back
    THEN Handled(ParseResult("IDLE", None, NoData), sd)
    ELSE Handled(EmptyResult, sd)

\* a slip: the todo menu answers 'back' like the main menu's other sub-screens
ParseTodoMenu_Back(transcript, sd) ==
    LET normalized == NormalizeNumberWord(transcript) IN
    IF normalized \in {S_list, S_1} \/ transcript \in {S_list, S_one}
    THEN Handled(ParseResult("TODO_LIST", None, NoData), sd)
    ELSE IF normalized \in {S_add, S_2} \/ transcript \in {S_add, S_two}
    THEN Handled(ParseResult("TODO_ADD", None, NoData), sd)
    ELSE IF normalized \in {S_instructions, S_3} \/ transcript \in {S_instructions, S_three}
    THEN Handled(ParseResult("TODO_INSTRUCTIONS", None, NoData), sd)
    ELSE IF transcript = S_back
    THEN Handled(ParseResult("MAIN_MENU", None, NoData), sd)
    ELSE Handled(EmptyResult, sd)

ParseTodoMenu(transcript, sd) ==
    LET normalized == NormalizeNumberWord(transcript) IN
    IF normalized \in {S_list, S_1} \/ transcript \in {S_list, S_one}
    THEN Handled(ParseResult("TODO_LIST", None, NoData), sd)
    ELSE IF normalized \in {S_add, S_2} \/ transcript \in {S_add, S_two}
    THEN Handled(ParseResult("TODO_ADD", None, NoData), sd)
    ELSE IF normalized \in {S_instructions, S_3} \/ transcript \in {S_instructions, S_three}
    THEN Handled(ParseResult("TODO_INSTRUCTIONS", None, NoData), sd)
    ELSE Handled(EmptyResult, sd)

\* a slip: the instructions screen closes on any speech
ParseTodoInstructions_AnySpeech(transcript, sd) ==
    Handled(ParseResult("TODO_MENU", None, NoData), sd)

ParseTodoInstructions(transcript, sd) ==
    IF transcript = S_back
    THEN Handled(ParseResult("TODO_MENU", None, NoData), sd)
    ELSE Handled(EmptyResult, sd)

ParseTodoList(transcript, sd) ==
    IF transcript = S_up THEN Handled(ParseResult(None, "scroll_up", NoData), sd)
    ELSE IF transcript = S_down THEN Handled(ParseResult(None, "scroll_down", NoData), sd)
    ELSE IF transcript = S_cross THEN Handled(ParseResult(None, "mark_done", NoData), sd)
    ELSE IF transcript = S_uncross THEN Handled(ParseResult(None, "mark_undone", NoData), sd)
    ELSE IF transcript = S_add THEN Handled(ParseResult("TODO_ADD", None, NoData), sd)
    ELSE IF transcript = S_back THEN Handled(ParseResult("TODO_MENU", None, NoData), sd)
    ELSE Handled(EmptyResult, sd)

\* a slip: 'confirm' emits add_todo but stays in TODO_ADD
ParseTodoAdd_ConfirmStays(transcript, sd) ==
    IF transcript = S_confirm
    THEN LET todo_text == GetData(sd, "captured_text", EmptyStr) IN
         IF todo_text # EmptyStr
         THEN Handled(ParseResult(None, "add_todo", [text |-> todo_text]), sd)
         ELSE Handled(EmptyResult, sd)
    ELSE IF transcript = S_cancel
    THEN Handled(ParseResult("TODO_LIST", None, NoData), sd)
    ELSE Handled(ParseResult(None, "capture_todo_text", [text |-> transcript]),
                 SetData(sd, "captured_text", transcript))

\* a slip: dictated text is echoed but not stored
ParseTodoAdd_NoCapture(transcript, sd) ==
    IF transcript = S_confirm
    THEN LET todo_text == GetData(sd, "captured_text", EmptyStr) IN
         IF todo_text # EmptyStr
         THEN Handled(ParseResult("TODO_LIST", "add_todo", [text |-> todo_text]), sd)
         ELSE Handled(EmptyResult, sd)
    ELSE IF transcript = S_cancel
    THEN Handled(ParseResult("TODO_LIST", None, NoData), sd)
    ELSE Handled(ParseResult(None, "capture_todo_text", [text |-> transcript]), sd)

\* a slip: only the first dictation of a visit is stored
ParseTodoAdd_KeepsFirst(transcript, sd) ==
    IF transcript = S_confirm
    THEN LET todo_text == GetData(sd, "captured_text", EmptyStr) IN
         IF todo_text # EmptyStr
         THEN Handled(ParseResult("TODO_LIST", "add_todo", [text |-> todo_text]), sd)
         ELSE Handled(EmptyResult, sd)
    ELSE IF transcript = S_cancel
    THEN Handled(ParseResult("TODO_LIST", None, NoData), sd)
    ELSE Handled(ParseResult(None, "capture_todo_text", [text |-> transcript]),
                 IF "captured_text" \in DOMAIN sd THEN sd
                 ELSE SetData(sd, "captured_text", transcript))

ParseTodoAdd(transcript, sd) ==
    IF transcript = S_confirm
    THEN LET todo_text == GetData(sd, "captured_text", EmptyStr) IN
         IF todo_text # EmptyStr
         THEN Handled(ParseResult("TODO_LIST", "add_todo", [text |-> todo_text]), sd)
         ELSE Handled(EmptyResult, sd)
    ELSE IF transcript = S_cancel
    THEN Handled(ParseResult("TODO_LIST", None, NoData), sd)
    ELSE Handled(ParseResult(None, "capture_todo_text", [text |-> transcript]),
                 SetData(sd, "captured_text", transcript))

ParseTranslation(transcript, sd) ==
    IF Contains(transcript, S_iris_end) \/ transcript = S_end
    THEN Handled(ParseResult("MAIN_MENU", None, NoData), sd)
    ELSE Handled(ParseResult(None, "translate", [text |-> transcript]), sd)

ParseDeviceList(transcript, sd) ==
    IF transcript = S_up THEN Handled(ParseResult(None, "scroll_up", NoData), sd)
    ELSE IF transcript = S_down THEN Handled(ParseResult(None, "scroll_down", NoData), sd)
    ELSE IF transcript = S_connect THEN Handled(ParseResult(None, "connect_current", NoData), sd)
    ELSE IF StartsWith(transcript, S_connect_)
    THEN Handled(ParseResult(None, "connect_named", [name |-> SliceFrom(transcript, 8)]), sd)
    ELSE IF transcript \in DigitStrings \/ NormalizeNumberWord(transcript) \in DigitStrings
    THEN LET normalized == NormalizeNumberWord(transcript) IN
         IF normalized \in DigitStrings
         THEN Handled(ParseResult(None, "connect_numbered",
                                  [index |-> DigitValue(normalized) - 1]), sd)
         ELSE Handled(EmptyResult, sd)
    ELSE IF transcript = S_back THEN Handled(ParseResult("MAIN_MENU", None, NoData), sd)
    ELSE Handled(EmptyResult, sd)

ParseConnectedLight(transcript, sd) ==
    IF transcript = S_on THEN Handled(ParseResult(None, "light_on", NoData), sd)
    ELSE IF transcript = S_off THEN Handled(ParseResult(None, "light_off", NoData), sd)
    ELSE IF transcript = S_back THEN Handled(ParseResult("DEVICE_LIST", None, NoData), sd)
    ELSE Handled(EmptyResult, sd)

\* a slip: the fan handler copied from the light handler, without 'low' and 'high'
ParseConnectedFan_LikeLight(transcript, sd) ==
    IF transcript = S_on THEN Handled(ParseResult(None, "fan_on", NoData), sd)
    ELSE IF transcript = S_off THEN Handled(ParseResult(None, "fan_off", NoData), sd)
    ELSE IF transcript = S_back THEN Handled(ParseResult("DEVICE_LIST", None, NoData), sd)
    ELSE Handled(EmptyResult, sd)

ParseConnectedFan(transcript, sd) ==
    IF transcript = S_on THEN Handled(ParseResult(None, "fan_on", NoData), sd)
    ELSE IF transcript = S_off THEN Handled(ParseResult(None, "fan_off", NoData), sd)
    ELSE IF transcript = S_low THEN Handled(ParseResult(None, "fan_low", NoData), sd)
    ELSE IF transcript = S_high THEN Handled(ParseResult(None, "fan_high", NoData), sd)
    ELSE IF transcript = S_back THEN Handled(ParseResult("DEVICE_LIST", None, NoData), sd)
    ELSE Handled(EmptyResult, sd)

ParseConnectedMotion(transcript, sd) ==
    IF transcript = S_on THEN Handled(ParseResult(None, "motion_on", NoData), sd)
    ELSE IF transcript = S_off THEN Handled(ParseResult(None, "motion_off", NoData), sd)
    ELSE IF transcript = S_back THEN Handled(ParseResult("DEVICE_LIST", None, NoData), sd)
    ELSE Handled(EmptyResult, sd)

ParseConnectedDistance(transcript, sd) ==
    IF transcript = S_back THEN Handled(ParseResult("DEVICE_LIST", None, NoData), sd)
    ELSE Handled(EmptyResult, sd)

ParseConnectedGlasses(transcript, sd) ==
    IF StartsWith(transcript, S_send_)
    THEN Handled(ParseResult(None, "send_message", [message |-> SliceFrom(transcript, 5)]), sd)
    ELSE IF transcript = S_back THEN Handled(ParseResult("DEVICE_LIST", None, NoData), sd)
    ELSE Handled(EmptyResult, sd)

\* the routing of parse() on current_state
Route(state, transcript, sd) ==
    CASE state = "IDLE"               -> ParseIdle(transcript, sd)
      [] state = "MAIN_MENU"          -> ParseMainMenu(transcript, sd)
      [] state = "TODO_MENU"          -> ParseTodoMenu(transcript, sd)
      [] state = "TODO_INSTRUCTIONS"  -> ParseTodoInstructions(transcript, sd)
      [] state = "TODO_LIST"          -> ParseTodoList(transcript, sd)
      [] state = "TODO_ADD"           -> ParseTodoAdd(transcript, sd)
      [] state = "TRANSLATION"        -> ParseTranslation(transcript, sd)
      [] state = "DEVICE_LIST"        -> ParseDeviceList(transcript, sd)
      [] state = "CONNECTED_LIGHT"    -> ParseConnectedLight(transcript, sd)
      [] state = "CONNECTED_FAN"      -> ParseConnectedFan(transcript, sd)
      [] state = "CONNECTED_MOTION"   -> ParseConnectedMotion(transcript, sd)
      [] state = "CONNECTED_DISTANCE" -> ParseConnectedDistance(transcript, sd)
      [] state = "CONNECTED_GLASSES"  -> ParseConnectedGlasses(transcript, sd)
      [] OTHER -> Handled(EmptyResult, sd)

\* the parser fields that _transition_to, parse and check_timeout write
Fields(state, lct, sd) == [current_state |-> state, last_command_time |-> lct, state_data |-> sd]

\* a slip: _transition_to without the state_data.clear()
TransitionTo_KeepData(old_state, sd, new_state, t) == Fields(new_state, t, sd)

\* _transition_to(new_state) at time t on a parser in old_state holding sd
TransitionTo(old_state, sd, new_state, t) ==
    Fields(new_state, t, IF old_state # new_state THEN NoData ELSE sd)

\* a slip: the timestamp is refreshed by a transition only
ParseOf_NoRefresh(state, lct, sd, transcript, t) ==
    IF transcript = EmptyStr
    THEN [res |-> EmptyResult, fields |-> Fields(state, lct, sd)]
    ELSE LET cleaned == StripIrisPrefix(transcript)
             h == Route(state, cleaned, sd)
         IN [res |-> h.res,
             fields |-> IF h.res.new_state # None
                        THEN TransitionTo(state, h.sd, h.res.new_state, t)
                        ELSE Fields(state, lct, h.sd)]

\* parse(transcript) at time t: the ParseResult and the parser fields it leaves
ParseOf(state, lct, sd, transcript, t) ==
    IF transcript = EmptyStr
    THEN [res |-> EmptyResult, fields |-> Fields(state, lct, sd)]
    ELSE LET cleaned == StripIrisPrefix(transcript)
             h == Route(state, cleaned, sd)
         IN [res |-> h.res,
             fields |-> IF h.res.new_state # None
                        THEN TransitionTo(state, h.sd, h.res.new_state, t)
                        ELSE Fields(state, t, h.sd)]

\* a slip: every state that is not in NO_TIMEOUT_STATES times out to IDLE
CheckTimeoutOf_FailClosed(state, lct, sd, t) ==
    IF t - lct < TimeoutSeconds
    THEN [ret |-> None, fields |-> Fields(state, lct, sd)]
    ELSE IF state \in DOMAIN CUSTOM_TIMEOUT_STATES
    THEN [ret |-> CUSTOM_TIMEOUT_STATES[state],
          fields |-> TransitionTo(state, sd, CUSTOM_TIMEOUT_STATES[state], t)]
    ELSE IF state \notin {"TRANSLATION", "CONNECTED_LIGHT", "CONNECTED_FAN",
                          "CONNECTED_MOTION", "CONNECTED_DISTANCE"}
    THEN [ret |-> "IDLE", fields |-> TransitionTo(state, sd, "IDLE", t)]
    ELSE [ret |-> None, fields |-> Fields(state, lct, sd)]

\* a slip: <= for <, the timeout firing one tick late
CheckTimeoutOf_Late(state, lct, sd, t) ==
    IF t - lct <= TimeoutSeconds
    THEN [ret |-> None, fields |-> Fields(state, lct, sd)]
    ELSE IF state \in TIMEOUT_STATES
    THEN [ret |-> "IDLE", fields |-> TransitionTo(state, sd, "IDLE", t)]
    ELSE IF state \in DOMAIN CUSTOM_TIMEOUT_STATES
    THEN [ret |-> CUSTOM_TIMEOUT_STATES[state],
          fields |-> TransitionTo(state, sd, CUSTOM_TIMEOUT_STATES[state], t)]
    ELSE [ret |-> None, fields |-> Fields(state, lct, sd)]

\* check_timeout() at time t: the returned state (or None) and the parser fields
CheckTimeoutOf(state, lct, sd, t) ==
    IF t - lct < TimeoutSeconds
    THEN [ret |-> None, fields |-> Fields(state, lct, sd)]
    ELSE IF state \in TIMEOUT_STATES
    THEN [ret |-> "IDLE", fields |-> TransitionTo(state, sd, "IDLE", t)]
    ELSE IF state \in DOMAIN CUSTOM_TIMEOUT_STATES
    THEN [ret |-> CUSTOM_TIMEOUT_STATES[state],
          fields |-> TransitionTo(state, sd, CUSTOM_TIMEOUT_STATES[state], t)]
    ELSE [ret |-> None, fields |-> Fields(state, lct, sd)]

\* connect_to_device(device_type)
ConnectToDevice(device_type) ==
    CASE device_type = "light"    -> "CONNECTED_LIGHT"
      [] device_type = "fan"      -> "CONNECTED_FAN"
      [] device_type = "motion"   -> "CONNECTED_MOTION"
      [] device_type = "distance" -> "CONNECTED_DISTANCE"
      [] device_type = "glasses"  -> "CONNECTED_GLASSES"
      [] OTHER -> "DEVICE_LIST"

----------------------------------------------------------------------------
(* The parser driven through its public operations *)

\* transcripts handed to parse()
Transcripts == {EmptyStr, S_hey_iris, S_todo, S_add, S_list, S_instructions, S_translation,
                S_connect, S_back, S_buy_milk, S_confirm, S_cancel, S_iris_confirm,
                S_iris_buy_milk, S_end, S_connect_light}

DeviceTypes == {"pi", "light", "fan", "motion", "distance", "glasses"}

ConnectActions == {"connect_current", "connect_named", "connect_numbered"}

\* the transcript as the per-state parser receives it: without a leading 'iris ' token
Heard(t) == IF StartsWith(t, S_iris_) THEN Strip(SliceFrom(t, 5)) ELSE t

\* history: the parser as the operation found it
PreOf(input) == [state |-> current_state, data |-> state_data, input |-> input,
                 action |-> result.action,
                 idle_call |-> now - last_call, idle_heard |-> now - last_heard]

\* history: how far the parse() calls have followed the todo-add scenario
\* 'hey iris', 'todo', 'add', <text>, 'confirm' from IDLE
FlowAfterParse(transcript) ==
    IF flow.step = 1 /\ transcript = S_todo THEN [step |-> 2, text |-> EmptyStr]
    ELSE IF flow.step = 2 /\ transcript = S_add THEN [step |-> 3, text |-> EmptyStr]
    ELSE IF flow.step = 3 /\ transcript \notin {S_confirm, S_cancel, EmptyStr}
    THEN [step |-> 4, text |-> transcript]
    ELSE IF flow.step = 4 /\ transcript = S_confirm THEN [step |-> 5, text |-> flow.text]
    ELSE IF current_state = "IDLE" /\ transcript = S_hey_iris
    THEN [step |-> 1, text |-> EmptyStr]
    ELSE [step |-> 0, text |-> EmptyStr]

ParserInit ==
    /\ current_state = "IDLE"
    /\ last_command_time = 0
    /\ state_data = NoData
    /\ result = EmptyResult
    /\ timeout_result = None
    /\ op = "init"
    /\ pre = [state |-> "IDLE", data |-> NoData, input |-> EmptyStr, action |-> None,
              idle_call |-> 0, idle_heard |-> 0]
    /\ flow = [step |-> 0, text |-> EmptyStr]
    /\ written = {}
    /\ last_call = 0
    /\ last_heard = 0
    /\ idle_returns = 0

Apply(fields) ==
    /\ current_state' = fields.current_state
    /\ last_command_time' = fields.last_command_time
    /\ state_data' = fields.state_data

\* time passes
Tick ==
    /\ now < MaxTime
    /\ now' = now + 1
    /\ op' = "tick"
    /\ UNCHANGED <<current_state, last_command_time, state_data, result, timeout_result,
                   pre, last_call, last_heard, idle_returns, flow, written>>
    /\ UNCHANGED <<queueVars, regVars, mainVars, svcVars>>

\* parser.parse(transcript)
ParseStep(transcript) ==
    LET r == ParseOf(current_state, last_command_time, state_data, transcript, now) IN
    /\ Apply(r.fields)
    /\ result' = r.res
    /\ op' = "parse"
    /\ pre' = PreOf(transcript)
    /\ last_call' = now
    /\ last_heard' = IF transcript # EmptyStr \/ r.res.new_state # None THEN now ELSE last_heard
    /\ idle_returns' = 0
    /\ flow' = FlowAfterParse(transcript)
    /\ written' = IF r.fields.current_state # current_state THEN {}
                  ELSE IF r.res.action = "capture_todo_text" THEN written \cup {"captured_text"}
                  ELSE written
    /\ UNCHANGED timeout_result

Parse(transcript) ==
    /\ ParseStep(transcript)
    /\ UNCHANGED <<now, queueVars, regVars, mainVars, svcVars>>

\* parser.check_timeout()
CheckTimeoutStep ==
    LET r == CheckTimeoutOf(current_state, last_command_time, state_data, now) IN
    /\ Apply(r.fields)
    /\ timeout_result' = r.ret
    /\ op' = "check_timeout"
    /\ pre' = PreOf(EmptyStr)
    /\ last_call' = IF r.ret # None THEN now ELSE last_call
    /\ last_heard' = IF r.ret # None THEN now ELSE last_heard
    /\ idle_returns' = IF r.ret = "IDLE" /\ idle_returns < 2 THEN idle_returns + 1
                       ELSE idle_returns
    /\ flow' = IF r.ret # None THEN [step |-> 0, text |-> EmptyStr] ELSE flow
    /\ written' = IF r.fields.current_state # current_state THEN {} ELSE written
    /\ UNCHANGED result

CheckTimeout ==
    /\ CheckTimeoutStep
    /\ UNCHANGED <<now, queueVars, regVars, mainVars, svcVars>>

\* handle_command's connect branches, as far as the parser sees them:
\* parser._transition_to(parser.connect_to_device(device_type))
ConnectStep(device_type) ==
    /\ Apply(TransitionTo(current_state, state_data, ConnectToDevice(device_type), now))
    /\ op' = "connect"
    /\ pre' = PreOf(EmptyStr)
    /\ last_call' = now
    /\ last_heard' = now
    /\ flow' = [step |-> 0, text |-> EmptyStr]
    /\ written' = IF ConnectToDevice(device_type) # current_state THEN {} ELSE written
    /\ UNCHANGED <<result, timeout_result, idle_returns>>

Connect(device_type) ==
    /\ op = "parse"
    /\ current_state = "DEVICE_LIST"
    /\ result.action \in ConnectActions
    /\ ConnectStep(device_type)
    /\ UNCHANGED <<now, queueVars, regVars, mainVars, svcVars>>

\* parser.set_state_data(key, value)
SetStateData(key, value) ==
    /\ state_data' = SetData(state_data, key, value)
    /\ written' = written \cup {key}
    /\ op' = "set_state_data"
    /\ pre' = PreOf(EmptyStr)
    /\ UNCHANGED <<now, current_state, last_command_time, result, timeout_result,
                   last_call, last_heard, idle_returns, flow>>
    /\ UNCHANGED <<queueVars, regVars, mainVars, svcVars>>

\* history: what the present visit to TODO_ADD has last been dictated, and what the
\* visit before it had last been dictated, once the parser, found in state old, has
\* been given transcript and is left in state new
DictatedAfter(old, new, transcript) ==
    IF new = "TODO_ADD" /\ old # "TODO_ADD"
    THEN [text |-> EmptyStr, earlier |-> dictated.text]
    ELSE IF old = "TODO_ADD" /\ Heard(transcript) \notin {S_confirm, S_cancel, EmptyStr}
    THEN [dictated EXCEPT !.text = transcript]
    ELSE dictated

DictateFrame == UNCHANGED <<now, queueVars, regVars, mainVars, waiter, client, dispVars,
                            scan, todoVars>>

\* parser.parse(transcript), the dictation followed
Dictate(transcript) ==
    /\ ParseStep(transcript)
    /\ dictated' = DictatedAfter(current_state, current_state', transcript)
    /\ DictateFrame

\* parser.check_timeout(), the dictation followed
DictateTimeout ==
    /\ CheckTimeoutStep
    /\ dictated' = DictatedAfter(current_state, current_state', EmptyStr)
    /\ DictateFrame

\* what the recognizer can hand to parse() when the dictation is examined
DictateTranscripts ==
    {S_hey_iris, S_todo, S_add, S_buy_milk, S_iris_buy_milk, S_confirm, S_cancel}

\* the parser on the way to TODO_ADD and in it, with time passing
DictateNext ==
    \/ Tick
    \/ \E t \in DictateTranscripts : Dictate(t)
    \/ DictateTimeout

ParserNext ==
    \/ Tick
    \/ \E t \in Transcripts : Parse(t)
    \/ CheckTimeout
    \/ \E d \in DeviceTypes : Connect(d)
    \/ SetStateData("test_key", S_on)

\* what the recognizer can hand to parse() when the routing of each state is examined
RoutingTranscripts ==
    {EmptyStr, S_hey_iris, S_hello_hey_iris, S_iris_hey_iris, S_iris_todo,
     S_todo, S_weather, S_translation, S_connect, S_back, S_list,
     S_1, S_2, S_3, S_4, S_5, S_6, S_7, S_8, S_9,
     S_one, S_two, S_three, S_four, S_five, S_six, S_seven, S_eight, S_nine,
     S_up, S_down, S_cross, S_uncross, S_buy_milk,
     S_end, S_iris_end, S_ok_iris_end, S_iris_end_now, S_connect_light}

\* the parser alone, fed transcripts one after the other with no time passing
RoutingNext == \E t \in RoutingTranscripts : Parse(t)

\* what the recognizer can hand to parse() when the connected states are examined
ConnectedTranscripts ==
    {EmptyStr, S_hey_iris, S_connect, S_back, S_on, S_off, S_low, S_high, S_iris_high,
     S_send_hi, S_buy_milk}

\* the parser fed transcripts, and connected to a device after a connect action
ConnectedNext ==
    \/ \E t \in ConnectedTranscripts : Parse(t)
    \/ \E d \in DeviceTypes : Connect(d)

----------------------------------------------------------------------------
(* core/server.py: InterruptManager *)

\* the request threads of the Flask server (app.run(threaded=True))
Producers == {"p1", "p2"}

InterruptTypes == {"motion"}

Interrupt(id, type) == [id |-> id, type |-> type]

\* a slip: put_nowait on a queue without maxsize
QueuePutNowait_Unbounded(q, x) == [ok |-> TRUE, queue |-> Append(q, x)]

\* queue.Queue(maxsize).put_nowait(x): appends, or raises queue.Full
QueuePutNowait(q, x) ==
    IF Len(q) >= MaxQueueSize
    THEN [ok |-> FALSE, queue |-> q]
    ELSE [ok |-> TRUE, queue |-> Append(q, x)]

\* a slip: a LIFO queue
QueueGetNowait_Newest(q) ==
    IF q = <<>>
    THEN [ok |-> FALSE, item |-> None, queue |-> q]
    ELSE [ok |-> TRUE, item |-> q[Len(q)], queue |-> SubSeq(q, 1, Len(q) - 1)]

\* queue.Queue.get_nowait(): takes the oldest item, or raises queue.Empty
QueueGetNowait(q) ==
    IF q = <<>>
    THEN [ok |-> FALSE, item |-> None, queue |-> q]
    ELSE [ok |-> TRUE, item |-> Head(q), queue |-> Tail(q)]

\* a slip: the counter is not advanced
ClearQueueStep_NoCount(q, n) ==
    LET g == QueueGetNowait(q) IN
    IF g.ok THEN [done |-> FALSE, queue |-> g.queue, count |-> n]
    ELSE [done |-> TRUE, queue |-> q, count |-> n]

\* one round of clear_queue's loop: get_nowait and count, or break on queue.Empty
ClearQueueStep(q, n) ==
    LET g == QueueGetNowait(q) IN
    IF g.ok THEN [done |-> FALSE, queue |-> g.queue, count |-> n + 1]
    ELSE [done |-> TRUE, queue |-> q, count |-> n]

QueueInit ==
    /\ queue = <<>>
    /\ running = TRUE
    /\ ppc = [p \in Producers |-> "idle"]
    /\ pint = [p \in Producers |-> None]
    /\ push_ret = [p \in Producers |-> None]
    /\ dpc = "idle"
    /\ count = 0
    /\ clear_ret = None
    /\ next_id = 0
    /\ accepted = <<>>
    /\ handled = <<>>
    /\ qop = [name |-> "init", who |-> None, ret |-> None]
    /\ qpre = <<>>
    /\ clear_taken = <<>>
    /\ clear_start = 0
    /\ clear_alone = TRUE

\* a request handler builds an Interrupt and calls push(): the _running test
PushBegin(p, type) ==
    /\ ppc[p] = "idle"
    /\ next_id < MaxInterrupts
    /\ next_id' = next_id + 1
    /\ qpre' = queue
    /\ IF ~running
       THEN /\ push_ret' = [push_ret EXCEPT ![p] = "False"]
            /\ qop' = [name |-> "push", who |-> p, ret |-> "False"]
            /\ UNCHANGED <<ppc, pint>>
       ELSE /\ ppc' = [ppc EXCEPT ![p] = "put"]
            /\ pint' = [pint EXCEPT ![p] = Interrupt(next_id + 1, type)]
            /\ qop' = [name |-> "push_begin", who |-> p, ret |-> None]
            /\ UNCHANGED push_ret
    /\ UNCHANGED <<queue, running, dpc, count, clear_ret, accepted, handled,
                   clear_taken, clear_start, clear_alone>>
    /\ UNCHANGED <<now, parserVars, regVars, mainVars, svcVars>>

\* push(): put_nowait, True, or False on queue.Full
PushPut(p) ==
    /\ ppc[p] = "put"
    /\ LET r == QueuePutNowait(queue, pint[p]) IN
       /\ queue' = r.queue
       /\ push_ret' = [push_ret EXCEPT ![p] = IF r.ok THEN "True" ELSE "False"]
       /\ accepted' = IF r.ok THEN Append(accepted, pint[p].id) ELSE accepted
       /\ qop' = [name |-> "push", who |-> p, ret |-> IF r.ok THEN "True" ELSE "False"]
       /\ clear_alone' = IF r.ok /\ dpc = "loop" THEN FALSE ELSE clear_alone
    /\ qpre' = queue
    /\ ppc' = [ppc EXCEPT ![p] = "idle"]
    /\ pint' = [pint EXCEPT ![p] = None]
    /\ UNCHANGED <<running, dpc, count, clear_ret, next_id, handled, clear_taken, clear_start>>
    /\ UNCHANGED <<now, parserVars, regVars, mainVars, svcVars>>

\* poll() by the consumer: None when stopped or empty, else the oldest interrupt
PollOf(q, run) ==
    IF ~run THEN [ok |-> FALSE, item |-> None, queue |-> q] ELSE QueueGetNowait(q)

PollStep ==
    /\ LET r == PollOf(queue, running) IN
       /\ queue' = r.queue
       /\ handled' = IF r.ok THEN Append(handled, r.item.id) ELSE handled
       /\ qop' = [name |-> "poll", who |-> "main", ret |-> IF r.ok THEN r.item.id ELSE 0]
       /\ clear_alone' = IF r.ok /\ dpc = "loop" THEN FALSE ELSE clear_alone
    /\ qpre' = queue
    /\ UNCHANGED <<running, ppc, pint, push_ret, dpc, count, clear_ret, next_id, accepted,
                   clear_taken, clear_start>>

Poll ==
    /\ PollStep
    /\ UNCHANGED <<now, parserVars, regVars, mainVars, svcVars>>

\* clear_queue() is entered (the /interrupt/clear request): count = 0
ClearBegin ==
    /\ dpc = "idle"
    /\ dpc' = "loop"
    /\ count' = 0
    /\ clear_taken' = <<>>
    /\ clear_start' = Len(queue)
    /\ clear_alone' = TRUE
    /\ qop' = [name |-> "clear_begin", who |-> "clear", ret |-> None]
    /\ qpre' = queue
    /\ UNCHANGED <<queue, running, ppc, pint, push_ret, clear_ret, next_id, accepted, handled>>
    /\ UNCHANGED <<now, parserVars, regVars, mainVars, svcVars>>

\* clear_queue(): one round of the loop, returning count when the queue is found empty
ClearStep ==
    /\ dpc = "loop"
    /\ LET r == ClearQueueStep(queue, count) IN
       /\ queue' = r.queue
       /\ count' = r.count
       /\ clear_taken' = IF queue # <<>> /\ r.queue # queue
                         THEN Append(clear_taken, Head(queue).id) ELSE clear_taken
       /\ dpc' = IF r.done THEN "idle" ELSE "loop"
       /\ clear_ret' = IF r.done THEN r.count ELSE clear_ret
       /\ qop' = [name |-> IF r.done THEN "clear_queue" ELSE "clear_step",
                  who |-> "clear", ret |-> IF r.done THEN r.count ELSE 0]
    /\ qpre' = queue
    /\ UNCHANGED <<running, ppc, pint, push_ret, next_id, accepted, handled,
                   clear_start, clear_alone>>
    /\ UNCHANGED <<now, parserVars, regVars, mainVars, svcVars>>

\* stop()
StopStep ==
    /\ running' = FALSE
    /\ qop' = [name |-> "stop", who |-> "main", ret |-> None]
    /\ qpre' = queue
    /\ UNCHANGED <<queue, ppc, pint, push_ret, dpc, count, clear_ret, next_id, accepted,
                   handled, clear_taken, clear_start, clear_alone>>

Stop ==
    /\ running
    /\ StopStep
    /\ UNCHANGED <<now, parserVars, regVars, mainVars, svcVars>>

QueueNext ==
    \/ \E p \in Producers, ty \in InterruptTypes : PushBegin(p, ty)
    \/ \E p \in Producers : PushPut(p)
    \/ Poll
    \/ ClearBegin
    \/ ClearStep
    \/ Stop

----------------------------------------------------------------------------
(* core/discovery.py: DeviceRegistry *)

DiscoveredDevice(device_type, ip, port, last_seen, online) ==
    [device_type |-> device_type, ip |-> ip, port |-> port,
     last_seen |-> last_seen, online |-> online]

\* addresses, as Python strings
A_127_0_0_1 == <<"1", "2", "7", ".", "0", ".", "0", ".", "1">>
A_192_168_1_20 == <<"1", "9", "2", ".", "1", "6", "8", ".", "1", ".", "2", "0">>

\* _setup_mock_devices() at time t
MockDevices(t) ==
    [d \in DeviceTypes |->
        DiscoveredDevice(d, A_127_0_0_1, IF d = "pi" THEN 22 ELSE 80, t, TRUE)]

\* the order in which _setup_mock_devices() lists them
MockOrder == <<"pi", "light", "fan", "motion", "distance", "glasses">>

\* a dict without entries
NoDevices == [d \in {} |-> DiscoveredDevice(d, <<>>, 0, 0, FALSE)]

\* self._devices[device_type] = device
PutDevice(devs, device) ==
    [d \in (DOMAIN devs) \cup {device.device_type} |->
        IF d = device.device_type THEN device ELSE devs[d]]

\* a slip: the key is put at the end of the dict whether or not it is there already
PutKey_Append(ord, device_type) == Append(ord, device_type)

\* the key order of a dict after self._devices[device_type] = device
PutKey(ord, device_type) ==
    IF \E i \in DOMAIN ord : ord[i] = device_type THEN ord ELSE Append(ord, device_type)

\* device.online = False on the registered record of device_type
SetOffline(devs, device_type) ==
    IF device_type \in DOMAIN devs
    THEN [devs EXCEPT ![device_type] = [@ EXCEPT !.online = FALSE]]
    ELSE devs

\* a slip: timedelta(hours=2) for timedelta(minutes=2)
IsDeviceStale_Hours(is_mock, device, t) ==
    IF is_mock THEN FALSE ELSE t - device.last_seen > 60 * StaleWindow

\* _is_device_stale(device) at time t
IsDeviceStale(is_mock, device, t) ==
    IF is_mock THEN FALSE ELSE t - device.last_seen > StaleWindow

\* get_device(device_type) at time t: the registry it leaves and the device returned
\* (a sequence holding the device, or the empty sequence for Python's None)
GetDeviceOf(is_mock, devs, device_type, t) ==
    IF device_type \notin DOMAIN devs
    THEN [devices |-> devs, ret |-> <<>>]
    ELSE IF IsDeviceStale(is_mock, devs[device_type], t)
    THEN LET after == SetOffline(devs, device_type) IN
         [devices |-> after, ret |-> <<after[device_type]>>]
    ELSE [devices |-> devs, ret |-> <<devs[device_type]>>]

\* is_device_online(device_type) at time t
IsDeviceOnlineOf(is_mock, devs, device_type, t) ==
    LET g == GetDeviceOf(is_mock, devs, device_type, t) IN
    [devices |-> g.devices, ret |-> g.ret # <<>> /\ g.ret[1].online]

\* get_all_online() at time t
GetAllOnlineOf(is_mock, devs, t) ==
    {devs[d] : d \in {x \in DOMAIN devs : devs[x].online /\ ~IsDeviceStale(is_mock, devs[x], t)}}

\* a config without manual_devices
NoConfig == <<>>

\* create_registry(mock=is_mock, config=cfg)
RegistryCreate(is_mock, cfg) ==
    /\ mock = is_mock
    /\ config = cfg
    /\ loader = [stage |-> "idle", i |-> 0]
    /\ devices = IF mock THEN MockDevices(0) ELSE NoDevices
    /\ order = IF mock THEN MockOrder ELSE <<>>
    /\ rop = [name |-> "init", type |-> None, at |-> 0, before |-> <<>>, dev |-> <<>>,
              all |-> {}, flag |-> FALSE]

\* create_registry(mock=is_mock)
RegistryInit(is_mock) == RegistryCreate(is_mock, NoConfig)

\* history: the registered record of device_type, as a read finds it
Registered(device_type) ==
    IF device_type \in DOMAIN devices THEN <<devices[device_type]>> ELSE <<>>

\* the device types and addresses that discovery reports
SightedTypes == {"light", "pi"}
Addresses == {A_192_168_1_20}

\* IrisServiceListener._process_service_info / _process_udp_response: a sighting
Sighting(device_type, ip, port) ==
    /\ ~mock
    /\ devices' = PutDevice(devices, DiscoveredDevice(device_type, ip, port, now, TRUE))
    /\ rop' = [name |-> "sighting", type |-> device_type, at |-> now,
               before |-> Registered(device_type),
               dev |-> <<DiscoveredDevice(device_type, ip, port, now, TRUE)>>,
               all |-> {}, flag |-> FALSE]
    /\ order' = PutKey(order, device_type)
    /\ UNCHANGED <<mock, config, loader>>
    /\ UNCHANGED <<now, parserVars, queueVars, mainVars, svcVars>>

\* a slip: del self.registry._devices[device_type] for device.online = False
RemoveService_Deletes(device_type) ==
    /\ ~mock
    /\ device_type \in DOMAIN devices
    /\ devices' = [d \in (DOMAIN devices) \ {device_type} |-> devices[d]]
    /\ rop' = [name |-> "remove_service", type |-> device_type, at |-> now,
               before |-> Registered(device_type), dev |-> <<>>,
               all |-> {}, flag |-> FALSE]
    /\ UNCHANGED <<mock, order, config, loader>>
    /\ UNCHANGED <<now, parserVars, queueVars, mainVars, svcVars>>

\* IrisServiceListener.remove_service: the advertisement of device_type is withdrawn
RemoveService(device_type) ==
    /\ ~mock
    /\ device_type \in DOMAIN devices
    /\ devices' = SetOffline(devices, device_type)
    /\ rop' = [name |-> "remove_service", type |-> device_type, at |-> now,
               before |-> Registered(device_type), dev |-> <<>>,
               all |-> {}, flag |-> FALSE]
    /\ UNCHANGED <<mock, order, config, loader>>
    /\ UNCHANGED <<now, parserVars, queueVars, mainVars, svcVars>>

\* registry.get_device(device_type)
GetDevice(device_type) ==
    LET g == GetDeviceOf(mock, devices, device_type, now) IN
    /\ devices' = g.devices
    /\ rop' = [name |-> "get_device", type |-> device_type, at |-> now,
               before |-> Registered(device_type), dev |-> g.ret,
               all |-> {}, flag |-> FALSE]
    /\ UNCHANGED <<mock, order, config, loader>>
    /\ UNCHANGED <<now, parserVars, queueVars, mainVars, svcVars>>

\* registry.is_device_online(device_type)
IsDeviceOnline(device_type) ==
    LET g == IsDeviceOnlineOf(mock, devices, device_type, now) IN
    /\ devices' = g.devices
    /\ rop' = [name |-> "is_device_online", type |-> device_type, at |-> now,
               before |-> Registered(device_type), dev |-> <<>>,
               all |-> {}, flag |-> g.ret]
    /\ UNCHANGED <<mock, order, config, loader>>
    /\ UNCHANGED <<now, parserVars, queueVars, mainVars, svcVars>>

\* registry.get_all_online()
GetAllOnline ==
    /\ rop' = [name |-> "get_all_online", type |-> None, at |-> now,
               before |-> <<>>, dev |-> <<>>,
               all |-> GetAllOnlineOf(mock, devices, now), flag |-> FALSE]
    /\ UNCHANGED <<mock, devices, order, config, loader>>
    /\ UNCHANGED <<now, parserVars, queueVars, mainVars, svcVars>>

RegistryNext ==
    \/ Tick
    \/ \E d \in SightedTypes, a \in Addresses : Sighting(d, a, 80)
    \/ \E d \in SightedTypes : RemoveService(d)
    \/ \E d \in SightedTypes : GetDevice(d)
    \/ \E d \in SightedTypes : IsDeviceOnline(d)
    \/ GetAllOnline

----------------------------------------------------------------------------
(* core/discovery.py: manual devices *)

\* s.split('.')
RECURSIVE SplitDot(_)
SplitDot(s) ==
    IF \A i \in DOMAIN s : s[i] # "." THEN <<s>>
    ELSE LET k == CHOOSE i \in DOMAIN s : s[i] = "." /\ \A j \in 1..(i - 1) : s[j] # "." IN
         <<SubSeq(s, 1, k - 1)>> \o SplitDot(SubSeq(s, k + 1, Len(s)))

DecimalDigits == {"0", "1", "2", "3", "4", "5", "6", "7", "8", "9"}

DigitOf(c) ==
    CASE c = "0" -> 0 [] c = "1" -> 1 [] c = "2" -> 2 [] c = "3" -> 3 [] c = "4" -> 4
      [] c = "5" -> 5 [] c = "6" -> 6 [] c = "7" -> 7 [] c = "8" -> 8 [] c = "9" -> 9

\* the number a string of decimal digits writes
RECURSIVE DecimalValue(_)
DecimalValue(ds) ==
    IF ds = <<>> THEN 0
    ELSE 10 * DecimalValue(SubSeq(ds, 1, Len(ds) - 1)) + DigitOf(ds[Len(ds)])

\* int(part): a sequence holding the number, or the empty sequence for ValueError.
\* Python strips the surrounding whitespace, takes one leading sign, and allows single
\* underscores between digits.
IntOf(part) ==
    LET t == Strip(part)
        signed == t # <<>> /\ t[1] \in {"+", "-"}
        body == IF signed THEN Tail(t) ELSE t
        IsDigit(c) == c \in DecimalDigits
        wellformed ==
            /\ body # <<>>
            /\ \A i \in DOMAIN body : body[i] \in DecimalDigits \cup {"_"}
            /\ body[1] \in DecimalDigits
            /\ body[Len(body)] \in DecimalDigits
            /\ \A i \in 1..(Len(body) - 1) : ~(body[i] = "_" /\ body[i + 1] = "_")
        n == DecimalValue(SelectSeq(body, IsDigit))
    IN IF ~wellformed THEN <<>>
       ELSE IF signed /\ t[1] = "-" THEN <<0 - n>> ELSE <<n>>

\* placeholders = ['CHANGE_ME', 'change_me', 'placeholder', '', '0.0.0.0']
Placeholders == {<<"C", "H", "A", "N", "G", "E", "_", "M", "E">>,
                 <<"c", "h", "a", "n", "g", "e", "_", "m", "e">>,
                 <<"p", "l", "a", "c", "e", "h", "o", "l", "d", "e", "r">>,
                 <<>>,
                 <<"0", ".", "0", ".", "0", ".", "0">>}

\* _is_valid_ip(ip)
IsValidIp(ip) ==
    IF ip = <<>> THEN FALSE
    ELSE IF Strip(ip) \in Placeholders THEN FALSE
    ELSE LET parts == SplitDot(ip) IN
         IF Len(parts) # 4 THEN FALSE
         ELSE \A i \in DOMAIN parts :
                 /\ IntOf(parts[i]) # <<>>
                 /\ IntOf(parts[i])[1] >= 0
                 /\ IntOf(parts[i])[1] <= 255

\* one entry of config['manual_devices']: the key and its 'ip' and 'port'
\* (ip is the empty string when the entry has none)
ManualEntry(device_type, ip, port) == [device_type |-> device_type, ip |-> ip, port |-> port]

\* the port of a manual entry: 80 in place of one outside 1..65535
ManualPort(port) == IF port < 1 \/ port > 65535 THEN 80 ELSE port

\* _load_manual_devices, one entry up to the point of adding it: "skip" (already
\* discovered, no address, invalid address) or "add"
ManualDecision(devs, entry) ==
    IF entry.device_type \in DOMAIN devs /\ devs[entry.device_type].online THEN "skip"
    ELSE IF entry.ip = <<>> THEN "skip"
    ELSE IF ~IsValidIp(entry.ip) THEN "skip"
    ELSE "add"

\* the record _load_manual_devices stores for an entry at time t
ManualDevice(entry, t) ==
    DiscoveredDevice(entry.device_type, entry.ip, ManualPort(entry.port), t, TRUE)

\* where the loop of _load_manual_devices stands after entry i of cfg
LoaderAfter(cfg, i) ==
    IF i < Len(cfg) THEN [stage |-> "check", i |-> i + 1] ELSE [stage |-> "return", i |-> 0]

\* [d for d in self._devices.values() if d.online]
OnlineFlagged(devs) == {devs[d] : d \in {x \in DOMAIN devs : devs[x].online}}

\* the addresses a config file gives
ManualIps == {<<"1", "9", "2", ".", "1", "6", "8", ".", "1", ".", "5", "0">>,
              <<"0", ".", "0", ".", "0", ".", "0">>,
              <<" ", "0", ".", "0", ".", "0", ".", "0">>,
              <<"C", "H", "A", "N", "G", "E", "_", "M", "E">>,
              <<"2", "5", "6", ".", "0", ".", "0", ".", "1">>,
              <<"1", ".", "2", ".", "3">>,
              <<"+", "1", ".", "2", ".", "3", ".", "4">>,
              <<>>}

\* the manual_devices sections of the sessions considered
ManualConfigs ==
    {NoConfig}
        \cup {<<ManualEntry("light", ip, 80)>> : ip \in ManualIps}
        \cup {<<ManualEntry("pi", <<"0", ".", "0", ".", "0", ".", "0">>, 80),
                ManualEntry("light", <<"1", "9", "2", ".", "1", "6", "8", ".", "1", ".", "5", "0">>, 0)>>}

\* discover_all(): in mock mode the devices held; otherwise (the mDNS wait and the UDP
\* responses being sightings of their own) _load_manual_devices is entered
DiscoverAll ==
    /\ loader.stage = "idle"
    /\ IF mock
       THEN /\ rop' = [name |-> "discover_all", type |-> None, at |-> now, before |-> <<>>,
                       dev |-> <<>>, all |-> {devices[d] : d \in DOMAIN devices},
                       flag |-> FALSE]
            /\ UNCHANGED loader
       ELSE /\ loader' = IF config = <<>> THEN [stage |-> "return", i |-> 0]
                         ELSE [stage |-> "check", i |-> 1]
            /\ UNCHANGED rop
    /\ UNCHANGED <<mock, devices, order, config>>
    /\ UNCHANGED <<now, parserVars, queueVars, mainVars, svcVars>>

\* _load_manual_devices: the tests made on the next entry
LoadManualCheck ==
    /\ loader.stage = "check"
    /\ loader' = IF ManualDecision(devices, config[loader.i]) = "add"
                 THEN [stage |-> "write", i |-> loader.i]
                 ELSE LoaderAfter(config, loader.i)
    /\ UNCHANGED <<mock, devices, order, rop, config>>
    /\ UNCHANGED <<now, parserVars, queueVars, mainVars, svcVars>>

\* _load_manual_devices: self._devices[device_type] = device
LoadManualWrite ==
    /\ loader.stage = "write"
    /\ LET entry == config[loader.i] IN
       /\ devices' = PutDevice(devices, ManualDevice(entry, now))
       /\ order' = PutKey(order, entry.device_type)
       /\ rop' = [name |-> "load_manual", type |-> entry.device_type, at |-> now,
                  before |-> Registered(entry.device_type),
                  dev |-> <<ManualDevice(entry, now)>>, all |-> {}, flag |-> FALSE]
    /\ loader' = LoaderAfter(config, loader.i)
    /\ UNCHANGED <<mock, config>>
    /\ UNCHANGED <<now, parserVars, queueVars, mainVars, svcVars>>

\* discover_all(): the devices returned
DiscoverAllReturn ==
    /\ loader.stage = "return"
    /\ loader' = [stage |-> "idle", i |-> 0]
    /\ rop' = [name |-> "discover_all", type |-> None, at |-> now, before |-> <<>>,
               dev |-> <<>>, all |-> OnlineFlagged(devices), flag |-> FALSE]
    /\ UNCHANGED <<mock, devices, order, config>>
    /\ UNCHANGED <<now, parserVars, queueVars, mainVars, svcVars>>

\* add_manual_device(device_type, ip, port)
AddManualDevice(device_type, ip, port) ==
    /\ devices' = PutDevice(devices, DiscoveredDevice(device_type, ip, port, now, TRUE))
    /\ order' = PutKey(order, device_type)
    /\ rop' = [name |-> "add_manual_device", type |-> device_type, at |-> now,
               before |-> Registered(device_type),
               dev |-> <<DiscoveredDevice(device_type, ip, port, now, TRUE)>>,
               all |-> {}, flag |-> FALSE]
    /\ UNCHANGED <<mock, config, loader>>
    /\ UNCHANGED <<now, parserVars, queueVars, mainVars, svcVars>>

ManualNext ==
    \/ Tick
    \/ \E a \in Addresses : Sighting("light", a, 80)
    \/ RemoveService("light")
    \/ GetDevice("light")
    \/ DiscoverAll
    \/ LoadManualCheck
    \/ LoadManualWrite
    \/ DiscoverAllReturn
    \/ \E ip \in {<<"1", "9", "2", ".", "1", "6", "8", ".", "1", ".", "5", "0">>, <<"0", ".", "0", ".", "0", ".", "0">>} : AddManualDevice("light", ip, 80)

----------------------------------------------------------------------------
(* features/todo.py: TodoList *)

\* the longest list the sessions considered build
MaxTodos == 2

\* TodoItem(text=text): created_at plays no part
TodoItem(text) == [text |-> text, done |-> FALSE]

\* what a TodoList method leaves: the items, the cursor, the value returned
Todo(items, cursor, ret) == [todos |-> items, cursor_index |-> cursor, ret |-> ret]

\* list.pop(i), list.insert(i, x) with 0 <= i <= len: the list left
ListPop(l, i) == SubSeq(l, 1, i) \o SubSeq(l, i + 2, Len(l))

ListInsert(l, i, x) == SubSeq(l, 1, i) \o <<x>> \o SubSeq(l, i + 1, Len(l))

\* _is_valid_cursor()
IsValidCursor(items, cursor) == 0 <= cursor /\ cursor < Len(items)

\* add(text); saved is what save() returns
TodoAddOf(items, cursor, text, saved) ==
    IF Strip(text) = EmptyStr THEN Todo(items, cursor, FALSE)
    ELSE LET appended == Append(items, TodoItem(Strip(text)))
             moved == Len(appended) - 1
         IN IF saved THEN Todo(appended, moved, TRUE)
            ELSE Todo(SubSeq(appended, 1, Len(appended) - 1), moved, FALSE)

\* cross() for done = TRUE, uncross() for done = FALSE
TodoMarkOf(items, cursor, done, saved) ==
    IF ~IsValidCursor(items, cursor) THEN Todo(items, cursor, FALSE)
    ELSE IF items[cursor + 1].done = done THEN Todo(items, cursor, TRUE)
    ELSE IF saved THEN Todo([items EXCEPT ![cursor + 1].done = done], cursor, TRUE)
    ELSE Todo(items, cursor, FALSE)

\* remove_current()
TodoRemoveCurrentOf(items, cursor, saved) ==
    IF ~IsValidCursor(items, cursor) THEN Todo(items, cursor, FALSE)
    ELSE LET removed_todo == items[cursor + 1]
             popped == ListPop(items, cursor)
             adjusted == IF cursor >= Len(popped) /\ Len(popped) > 0 THEN Len(popped) - 1
                         ELSE IF Len(popped) = 0 THEN 0
                         ELSE cursor
         IN IF saved THEN Todo(popped, adjusted, TRUE)
            ELSE Todo(ListInsert(popped, adjusted, removed_todo), adjusted, FALSE)

\* scroll_up()
TodoScrollUpOf(items, cursor) ==
    IF items # <<>> /\ cursor > 0 THEN Todo(items, cursor - 1, TRUE)
    ELSE Todo(items, cursor, FALSE)

\* scroll_down()
TodoScrollDownOf(items, cursor) ==
    IF items # <<>> /\ cursor < Len(items) - 1 THEN Todo(items, cursor + 1, TRUE)
    ELSE Todo(items, cursor, FALSE)

\* TodoList() with no todos.json to load
TodoInit ==
    /\ todos = <<>>
    /\ cursor_index = 0
    /\ top = [name |-> "init", text |-> EmptyStr, saved |-> TRUE, ret |-> FALSE,
              todos |-> <<>>, cursor_index |-> 0]

\* a method of TodoList has run: r is what it leaves; the history keeps the list and the
\* cursor it found
TodoStep(name, text, saved, r) ==
    /\ todos' = r.todos
    /\ cursor_index' = r.cursor_index
    /\ top' = [name |-> name, text |-> text, saved |-> saved, ret |-> r.ret,
               todos |-> todos, cursor_index |-> cursor_index]

\* the texts handed to add()
TodoTexts == {S_buy_milk, S_on}

TodoFrame == UNCHANGED <<now, parserVars, queueVars, regVars, mainVars, waiter, client,
                         dispVars, scan, dictated>>

TodoAdd(text, saved) ==
    /\ Len(todos) < MaxTodos
    /\ TodoStep("add", text, saved, TodoAddOf(todos, cursor_index, text, saved))
    /\ TodoFrame

TodoCross(saved) ==
    /\ TodoStep("cross", EmptyStr, saved, TodoMarkOf(todos, cursor_index, TRUE, saved))
    /\ TodoFrame

TodoUncross(saved) ==
    /\ TodoStep("uncross", EmptyStr, saved, TodoMarkOf(todos, cursor_index, FALSE, saved))
    /\ TodoFrame

TodoRemoveCurrent(saved) ==
    /\ TodoStep("remove_current", EmptyStr, saved,
                TodoRemoveCurrentOf(todos, cursor_index, saved))
    /\ TodoFrame

TodoScrollUp ==
    /\ TodoStep("scroll_up", EmptyStr, TRUE, TodoScrollUpOf(todos, cursor_index))
    /\ TodoFrame

TodoScrollDown ==
    /\ TodoStep("scroll_down", EmptyStr, TRUE, TodoScrollDownOf(todos, cursor_index))
    /\ TodoFrame

TodoNext ==
    \/ \E text \in TodoTexts, saved \in BOOLEAN : TodoAdd(text, saved)
    \/ \E saved \in BOOLEAN : TodoCross(saved)
    \/ \E saved \in BOOLEAN : TodoUncross(saved)
    \/ \E saved \in BOOLEAN : TodoRemoveCurrent(saved)
    \/ TodoScrollUp
    \/ TodoScrollDown

----------------------------------------------------------------------------
(* core/discovery.py: wait_for_device *)

\* no wait_for_device() call in progress, none made yet
\* (history: tested, the time of the latest loop test; polls and rounds, the number of
\* get_device and discover_all calls of the call)
WaiterIdle == [stage |-> "idle", type |-> None, timeout |-> 0, start |-> 0,
               ret |-> <<>>, error |-> None, tested |-> 0, polls |-> 0, rounds |-> 0]

\* no send_command() made yet
ClientIdle == [name |-> "init", type |-> None, was_online |-> FALSE, outcome |-> None,
               contacted |-> FALSE, error |-> None]

\* the worker not started, the stop event clear
ScanIdle == [thread |-> "none", stop_event |-> FALSE, started |-> 0, calls |-> 0, late |-> FALSE]

\* display.show_idle(current_weather) before the loop is entered
ServicesInit ==
    /\ waiter = WaiterIdle
    /\ client = ClientIdle
    /\ screen = "idle"
    /\ teardown = <<>>
    /\ cause = None
    /\ scan = ScanIdle
    /\ TodoInit
    /\ dictated = [text |-> EmptyStr, earlier |-> EmptyStr]

\* _load_manual_devices() run from entry i of cfg to the end, at time t: the devices
\* and the key order it leaves
RECURSIVE LoadManualFrom(_, _, _, _, _)
LoadManualFrom(devs, ord, cfg, i, t) ==
    IF i > Len(cfg) THEN [devices |-> devs, order |-> ord]
    ELSE IF ManualDecision(devs, cfg[i]) = "add"
    THEN LoadManualFrom(PutDevice(devs, ManualDevice(cfg[i], t)),
                        PutKey(ord, cfg[i].device_type), cfg, i + 1, t)
    ELSE LoadManualFrom(devs, ord, cfg, i + 1, t)

\* a slip: `if device:` for `if device and device.online:`
WaitPollOf_AnyDevice(is_mock, devs, device_type, t) ==
    LET g == GetDeviceOf(is_mock, devs, device_type, t) IN
    [devices |-> g.devices, ret |-> g.ret]

\* one round of the loop of wait_for_device at time t: the registry get_device leaves
\* and the device returned (the empty sequence: none, the loop goes on)
WaitPollOf(is_mock, devs, device_type, t) ==
    LET g == GetDeviceOf(is_mock, devs, device_type, t) IN
    [devices |-> g.devices,
     ret |-> IF g.ret # <<>> /\ g.ret[1].online THEN g.ret ELSE <<>>]

\* the timeouts wait_for_device is called with
WaitTimeouts == {0, WaitTimeout}

\* wait_for_device(device_type, timeout) is called: in mock mode it returns
\* self._devices[device_type] at once (KeyError for a type that has no record)
WaitBegin(device_type, timeout) ==
    /\ waiter.stage \in {"idle", "done"}
    /\ waiter' =
           IF ~mock
           THEN [WaiterIdle EXCEPT !.stage = "test", !.type = device_type,
                                   !.timeout = timeout, !.start = now]
           ELSE IF device_type \in DOMAIN devices
           THEN [WaiterIdle EXCEPT !.stage = "done", !.type = device_type,
                                   !.timeout = timeout, !.start = now,
                                   !.ret = <<devices[device_type]>>]
           ELSE [WaiterIdle EXCEPT !.stage = "done", !.type = device_type,
                                   !.timeout = timeout, !.start = now,
                                   !.error = "KeyError"]
    /\ UNCHANGED <<now, parserVars, queueVars, regVars, mainVars, client, dispVars, scan, todoVars, dictated>>

\* while time.time() - start_time < timeout: ... raise TimeoutError
WaitTest ==
    /\ waiter.stage = "test"
    /\ waiter' = IF now - waiter.start < waiter.timeout
                 THEN [waiter EXCEPT !.stage = "poll", !.tested = now]
                 ELSE [waiter EXCEPT !.stage = "done", !.tested = now,
                                     !.error = "TimeoutError"]
    /\ UNCHANGED <<now, parserVars, queueVars, regVars, mainVars, client, dispVars, scan, todoVars, dictated>>

\* device = self.get_device(device_type); if device and device.online: return device
WaitPoll ==
    /\ waiter.stage = "poll"
    /\ LET w == WaitPollOf(mock, devices, waiter.type, now) IN
       /\ devices' = w.devices
       /\ rop' = [name |-> "get_device", type |-> waiter.type, at |-> now,
                  before |-> Registered(waiter.type),
                  dev |-> GetDeviceOf(mock, devices, waiter.type, now).ret,
                  all |-> {}, flag |-> FALSE]
       /\ waiter' = IF w.ret # <<>>
                    THEN [waiter EXCEPT !.stage = "done", !.ret = w.ret,
                                        !.polls = @ + 1]
                    ELSE [waiter EXCEPT !.stage = "discover", !.polls = @ + 1]
    /\ UNCHANGED <<mock, order, config, loader>>
    /\ UNCHANGED <<now, parserVars, queueVars, mainVars, client, dispVars, scan, todoVars, dictated>>

\* self.discover_all(timeout=2.0): the manual devices are loaded (the sightings that
\* the mDNS wait and the UDP broadcast bring are steps of their own)
WaitDiscover ==
    /\ waiter.stage = "discover"
    /\ LET l == LoadManualFrom(devices, order, config, 1, now) IN
       /\ devices' = l.devices
       /\ order' = l.order
       /\ rop' = [name |-> "discover_all", type |-> None, at |-> now, before |-> <<>>,
                  dev |-> <<>>, all |-> OnlineFlagged(l.devices), flag |-> FALSE]
    /\ waiter' = [waiter EXCEPT !.stage = "sleep", !.rounds = @ + 1]
    /\ UNCHANGED <<mock, config, loader>>
    /\ UNCHANGED <<now, parserVars, queueVars, mainVars, client, dispVars, scan, todoVars, dictated>>

\* time.sleep(1.0)
WaitSleep ==
    /\ waiter.stage = "sleep"
    /\ now < MaxTime
    /\ now' = now + 1
    /\ waiter' = [waiter EXCEPT !.stage = "test"]
    /\ UNCHANGED <<parserVars, queueVars, regVars, mainVars, client, dispVars, scan, todoVars, dictated>>

WaitNext ==
    \/ Tick
    \/ \E a \in Addresses : Sighting("light", a, 80)
    \/ RemoveService("light")
    \/ \E timeout \in WaitTimeouts : WaitBegin("light", timeout)
    \/ WaitTest
    \/ WaitPoll
    \/ WaitDiscover
    \/ WaitSleep

----------------------------------------------------------------------------
(* core/discovery.py: the background rescan *)

\* how often start_background_scan() is called in a session
MaxStartCalls == 2

\* start_background_scan(): nothing in mock mode or when _scan_thread is set, otherwise
\* the thread is created and started
StartBackgroundScanOf(is_mock, s) ==
    IF is_mock \/ s.thread # "none"
    THEN [s EXCEPT !.calls = @ + 1]
    ELSE [s EXCEPT !.thread = "wait", !.started = @ + 1, !.calls = @ + 1]

\* a slip: `while True: time.sleep(rescan_interval)' for the wait on the stop event
ScanWaitOf_IgnoresStop(s) == [s EXCEPT !.thread = "round", !.late = s.stop_event]

\* the worker at `while not self._stop_event.wait(rescan_interval)': the loop is left
\* when the event is set, and a round begins when the interval has passed without it
ScanWaitOf(s) ==
    IF s.stop_event THEN [s EXCEPT !.thread = "done"]
    ELSE [s EXCEPT !.thread = "round", !.late = s.stop_event]

\* the marks of a round: device.online = False on every stale device
RECURSIVE MarkStale(_, _, _, _)
MarkStale(is_mock, devs, types, t) ==
    IF types = {} THEN devs
    ELSE LET d == CHOOSE x \in types : TRUE
             marked == IF IsDeviceStale(is_mock, devs[d], t) /\ devs[d].online
                       THEN SetOffline(devs, d) ELSE devs
         IN MarkStale(is_mock, marked, types \ {d}, t)

\* stop(): self._stop_event.set(); the join that follows is bounded by its timeout
RegistryStopOf(s) == [s EXCEPT !.stop_event = TRUE]

StartBackgroundScan ==
    /\ scan.calls < MaxStartCalls
    /\ scan' = StartBackgroundScanOf(mock, scan)
    /\ UNCHANGED <<now, parserVars, queueVars, regVars, mainVars, waiter, client, dispVars, todoVars, dictated>>

ScanWait ==
    /\ scan.thread = "wait"
    /\ scan' = ScanWaitOf(scan)
    /\ UNCHANGED <<now, parserVars, queueVars, regVars, mainVars, waiter, client, dispVars, todoVars, dictated>>

\* a round of the worker: discover_all(timeout=3.0), then the stale devices marked offline
ScanRound ==
    /\ scan.thread = "round"
    /\ LET m == LoadManualFrom(devices, order, config, 1, now) IN
       /\ devices' = MarkStale(mock, m.devices, DOMAIN m.devices, now)
       /\ order' = m.order
    /\ rop' = [name |-> "scan_round", type |-> None, at |-> now, before |-> <<>>,
               dev |-> <<>>, all |-> {}, flag |-> FALSE]
    /\ scan' = [scan EXCEPT !.thread = "wait"]
    /\ UNCHANGED <<mock, config, loader>>
    /\ UNCHANGED <<now, parserVars, queueVars, mainVars, waiter, client, dispVars, todoVars, dictated>>

RegistryStop ==
    /\ scan' = RegistryStopOf(scan)
    /\ UNCHANGED <<now, parserVars, queueVars, regVars, mainVars, waiter, client, dispVars, todoVars, dictated>>

ScanNext ==
    \/ Tick
    \/ Sighting("light", A_192_168_1_20, 80)
    \/ StartBackgroundScan
    \/ ScanWait
    \/ ScanRound
    \/ RegistryStop

----------------------------------------------------------------------------
(* main.py: the orchestrator loop *)

\* the spoken device names of parser.get_device_name_mapping()
N_light == <<"l", "i", "g", "h", "t">>
N_smart_light == <<"s", "m", "a", "r", "t", " ", "l", "i", "g", "h", "t">>
N_fan == <<"f", "a", "n">>
N_smart_fan == <<"s", "m", "a", "r", "t", " ", "f", "a", "n">>
N_motion == <<"m", "o", "t", "i", "o", "n">>
N_motion_sensor == <<"m", "o", "t", "i", "o", "n", " ", "s", "e", "n", "s", "o", "r">>
N_distance == <<"d", "i", "s", "t", "a", "n", "c", "e">>
N_distance_sensor == <<"d", "i", "s", "t", "a", "n", "c", "e", " ", "s", "e", "n", "s", "o", "r">>
N_glasses == <<"g", "l", "a", "s", "s", "e", "s">>
N_glasses_2 == <<"g", "l", "a", "s", "s", "e", "s", " ", "2">>
N_glasses_two == <<"g", "l", "a", "s", "s", "e", "s", " ", "t", "w", "o">>

\* get_device_name_mapping().get(name): the device type, or None
NameMapping(name) ==
    CASE name \in {N_light, N_smart_light} -> "light"
      [] name \in {N_fan, N_smart_fan} -> "fan"
      [] name \in {N_motion, N_motion_sensor} -> "motion"
      [] name \in {N_distance, N_distance_sensor} -> "distance"
      [] name \in {N_glasses, N_glasses_2, N_glasses_two} -> "glasses"
      [] OTHER -> None

\* the order in which get_device_list_for_display() lists the known types first
DeviceOrder == <<"light", "fan", "distance", "motion">>

InDeviceOrder(device_type) == \E i \in DOMAIN DeviceOrder : DeviceOrder[i] = device_type

\* a slip: the types listed in the order of the dict, without the fixed order first
DeviceListForDisplay_DictOrder(devs, ord) == ord

\* registry.get_device_list_for_display(): the device types, in the order listed
DeviceListForDisplay(devs, ord) ==
    LET Known(d) == d \in DOMAIN devs
        Other(d) == ~InDeviceOrder(d)
    IN SelectSeq(DeviceOrder, Known) \o SelectSeq(ord, Other)

\* what an HTTP request to a device can come to
Outcomes == {"ok", "fail", "cached"}

\* iot.send_command / iot.send_to_glasses, as far as the registry sees them
IotSendOf(is_mock, devs, device_type, t, outcome) ==
    IF is_mock THEN devs
    ELSE LET g == GetDeviceOf(is_mock, devs, device_type, t) IN
         IF g.ret = <<>> THEN g.devices
         ELSE IF ~g.ret[1].online THEN g.devices
         ELSE IF outcome = "fail" THEN SetOffline(g.devices, device_type)
         ELSE g.devices

\* iot.get_device_status: the cached state, or send_command(device_type, "status")
IotStatusOf(is_mock, devs, device_type, t, outcome) ==
    IF outcome = "cached" THEN devs ELSE IotSendOf(is_mock, devs, device_type, t, outcome)

\* _show_connected_device_screen(device_type), as far as the registry sees it
ShowConnectedOf(is_mock, devs, device_type, t, outcome) ==
    IF device_type \in {"light", "fan", "motion"}
    THEN IotStatusOf(is_mock, devs, device_type, t, outcome)
    ELSE IF device_type = "distance"
    THEN IotSendOf(is_mock, devs, device_type, t, outcome)
    ELSE devs

\* what handle_command leaves: the cursor, the registry, and the device type connected to
\* (a sequence holding it, or the empty sequence when no connection is made)
Handling(cursor, devs, connect) ==
    [device_cursor |-> cursor, devices |-> devs, connect |-> connect]

\* the three connect branches once the device type is chosen
ConnectTo(is_mock, devs, cursor, device_type, t, outcome) ==
    Handling(cursor, ShowConnectedOf(is_mock, devs, device_type, t, outcome), <<device_type>>)

\* handle_command(result, ...)
HandleCommandOf(res, state, cursor, is_mock, devs, ord, t, outcome) ==
    LET listed == DeviceListForDisplay(devs, ord) IN
    CASE res.action = "scroll_up" ->
            IF state = "DEVICE_LIST" /\ cursor > 0
            THEN Handling(cursor - 1, devs, <<>>) ELSE Handling(cursor, devs, <<>>)
      [] res.action = "scroll_down" ->
            IF state = "DEVICE_LIST" /\ cursor < Len(listed) - 1
            THEN Handling(cursor + 1, devs, <<>>) ELSE Handling(cursor, devs, <<>>)
      [] res.action \in {"light_on", "light_off"} ->
            Handling(cursor, IotSendOf(is_mock, devs, "light", t, outcome), <<>>)
      [] res.action \in {"fan_on", "fan_off", "fan_low", "fan_high"} ->
            Handling(cursor, IotSendOf(is_mock, devs, "fan", t, outcome), <<>>)
      [] res.action \in {"motion_on", "motion_off"} ->
            Handling(cursor, IotSendOf(is_mock, devs, "motion", t, outcome), <<>>)
      [] res.action = "send_message" ->
            Handling(cursor, IotSendOf(is_mock, devs, "glasses", t, outcome), <<>>)
      [] res.action = "connect_current" ->
            IF listed # <<>>
            THEN ConnectTo(is_mock, devs, cursor, listed[1], t, outcome)
            ELSE Handling(cursor, devs, <<>>)
      [] res.action = "connect_named" ->
            LET device_type == NameMapping(res.data.name) IN
            IF device_type = None THEN Handling(cursor, devs, <<>>)
            ELSE LET o == IsDeviceOnlineOf(is_mock, devs, device_type, t) IN
                 IF o.ret THEN ConnectTo(is_mock, o.devices, cursor, device_type, t, outcome)
                 ELSE Handling(cursor, o.devices, <<>>)
      [] res.action = "connect_numbered" ->
            LET device_index == res.data.index IN
            IF 0 <= device_index /\ device_index < Len(listed)
            THEN LET device_type == listed[device_index + 1]
                     o == IsDeviceOnlineOf(is_mock, devs, device_type, t) IN
                 IF o.ret THEN ConnectTo(is_mock, o.devices, cursor, device_type, t, outcome)
                 ELSE Handling(cursor, o.devices, <<>>)
            ELSE Handling(cursor, devs, <<>>)
      [] OTHER -> Handling(cursor, devs, <<>>)

\* a slip: the loop goes on to listen after it has handled an interrupt
AfterPoll_NoContinue(found) == "timeout"

\* the statement after interrupt_manager.poll(): `continue' when an interrupt was found
AfterPoll(found) == IF found THEN "poll" ELSE "timeout"

\* the branch taken on the ParseResult of a heard transcript
AfterParse(res) ==
    IF res.new_state # None THEN "state_change"
    ELSE IF res.action # None THEN "command"
    ELSE "unrecognized"

\* what audio.listen() hears in a session
MainTranscripts == {S_hey_iris, S_connect, S_connect_light, S_on}

\* the screen that Display has a method for, state by state
ScreenOfState(state) ==
    CASE state = "IDLE" -> "idle"
      [] state = "MAIN_MENU" -> "main_menu"
      [] state = "TODO_MENU" -> "todo_menu"
      [] state = "TODO_LIST" -> "todo_list"
      [] state = "TODO_ADD" -> "todo_add"
      [] state = "TODO_INSTRUCTIONS" -> "todo_instructions"
      [] state = "TRANSLATION" -> "translation"
      [] state = "DEVICE_LIST" -> "device_list"
      [] state = "CONNECTED_LIGHT" -> "connected_light"
      [] state = "CONNECTED_FAN" -> "connected_fan"
      [] state = "CONNECTED_MOTION" -> "connected_motion"
      [] state = "CONNECTED_DISTANCE" -> "connected_distance"
      [] state = "CONNECTED_GLASSES" -> "connected_glasses"

\* the states for which handle_state_change has a branch
RenderedStates == {"IDLE", "MAIN_MENU", "TODO_MENU", "TODO_LIST", "DEVICE_LIST"}

\* handle_state_change(new_state, ...): the screen shown afterwards, scr being the one
\* shown before
HandleStateChangeOf(new_state, scr) ==
    IF new_state \in RenderedStates THEN ScreenOfState(new_state) ELSE scr

\* whether send_command(device_type, ...) raises DeviceOfflineError
IotRaises(is_mock, devs, device_type, t, outcome) ==
    /\ ~is_mock
    /\ LET g == GetDeviceOf(is_mock, devs, device_type, t) IN
       g.ret = <<>> \/ ~g.ret[1].online \/ outcome = "fail"

\* _show_connected_device_screen(device_type): the screen shown afterwards
ShowConnectedScreenOf(is_mock, devs, device_type, t, outcome, scr) ==
    IF device_type \in {"light", "fan", "motion"}
    THEN IF outcome # "cached" /\ IotRaises(is_mock, devs, device_type, t, outcome)
         THEN "connection_error" ELSE ScreenOfState(ConnectToDevice(device_type))
    ELSE IF device_type = "distance"
    THEN IF IotRaises(is_mock, devs, device_type, t, outcome)
         THEN "connection_error" ELSE "connected_distance"
    ELSE IF device_type = "glasses" THEN "connected_glasses"
    ELSE scr

\* the screen a command to a connected device leaves
DeviceCommandScreen(is_mock, devs, device_type, t, outcome) ==
    IF IotRaises(is_mock, devs, device_type, t, outcome)
    THEN "connection_error" ELSE ScreenOfState(ConnectToDevice(device_type))

\* handle_command(result, ...): the screen shown afterwards; connect is the device type
\* the call connected to, as HandleCommandOf reports it
CommandScreenOf(res, state, scr, is_mock, devs, t, outcome, connect) ==
    CASE res.action \in {"scroll_up", "scroll_down"} ->
            IF state \in {"TODO_LIST", "DEVICE_LIST"} THEN ScreenOfState(state) ELSE scr
      [] res.action \in {"mark_done", "mark_undone"} ->
            IF state = "TODO_LIST" THEN "todo_list" ELSE scr
      [] res.action = "add_todo" ->
            IF res.data.text # EmptyStr THEN "todo_list" ELSE scr
      [] res.action = "capture_todo_text" -> "todo_add"
      [] res.action = "translate" ->
            IF res.data.text # EmptyStr THEN "translation" ELSE scr
      [] res.action \in {"light_on", "light_off"} ->
            DeviceCommandScreen(is_mock, devs, "light", t, outcome)
      [] res.action \in {"fan_on", "fan_off", "fan_low", "fan_high"} ->
            DeviceCommandScreen(is_mock, devs, "fan", t, outcome)
      [] res.action \in {"motion_on", "motion_off"} ->
            DeviceCommandScreen(is_mock, devs, "motion", t, outcome)
      [] res.action = "send_message" ->
            DeviceCommandScreen(is_mock, devs, "glasses", t, outcome)
      [] res.action \in ConnectActions ->
            IF connect # <<>>
            THEN ShowConnectedScreenOf(is_mock, devs, connect[1], t, outcome, scr)
            ELSE scr
      [] OTHER -> scr

\* handle_command(result, ...): the TodoList method it calls, if any, and what the method
\* leaves; saved is what save() returns
TodoCommandOf(res, state, items, cursor, saved) ==
    CASE res.action = "scroll_up" /\ state = "TODO_LIST" ->
            [name |-> "scroll_up", text |-> EmptyStr, r |-> TodoScrollUpOf(items, cursor)]
      [] res.action = "scroll_down" /\ state = "TODO_LIST" ->
            [name |-> "scroll_down", text |-> EmptyStr, r |-> TodoScrollDownOf(items, cursor)]
      [] res.action = "mark_done" ->
            [name |-> "cross", text |-> EmptyStr, r |-> TodoMarkOf(items, cursor, TRUE, saved)]
      [] res.action = "mark_undone" ->
            [name |-> "uncross", text |-> EmptyStr,
             r |-> TodoMarkOf(items, cursor, FALSE, saved)]
      [] res.action = "add_todo" /\ res.data.text # EmptyStr ->
            [name |-> "add", text |-> res.data.text,
             r |-> TodoAddOf(items, cursor, res.data.text, saved)]
      [] OTHER -> [name |-> None, text |-> EmptyStr, r |-> Todo(items, cursor, FALSE)]

MainInit ==
    /\ pc = "poll"
    /\ polled = <<>>
    /\ device_cursor = 0
    /\ mop = "init"

\* an exception leaves the `while True' loop for the finally block
LoopRaises ==
    /\ pc' = "finally"
    /\ cause' = "error"
    /\ UNCHANGED <<screen, teardown>>

\* interrupt = interrupt_manager.poll(); if interrupt: handle_interrupt(...); continue
\* raises: display.show_motion_interrupt raises
MainPoll(raises) ==
    /\ pc = "poll"
    /\ raises => PollOf(queue, running).ok
    /\ PollStep
    /\ polled' = queue
    /\ mop' = IF PollOf(queue, running).ok THEN "handle_interrupt" ELSE "poll_none"
    /\ IF raises THEN LoopRaises
       ELSE /\ pc' = AfterPoll(PollOf(queue, running).ok)
            /\ screen' = IF PollOf(queue, running).ok THEN "motion_interrupt" ELSE screen
            /\ UNCHANGED <<teardown, cause>>
    /\ UNCHANGED device_cursor
    /\ UNCHANGED <<now, parserVars, regVars, waiter, client, scan, todoVars, dictated>>

\* timeout_result = parser.check_timeout(); if timeout_result: handle_state_change(...)
\* raises: a collaborator called by handle_state_change raises
MainCheckTimeout(raises) ==
    /\ pc = "timeout"
    /\ LET ret == CheckTimeoutOf(current_state, last_command_time, state_data, now).ret IN
       /\ raises => ret \in RenderedStates
       /\ IF raises THEN LoopRaises
          ELSE /\ pc' = "listen"
               /\ screen' = IF ret # None THEN HandleStateChangeOf(ret, screen) ELSE screen
               /\ UNCHANGED <<teardown, cause>>
    /\ CheckTimeoutStep
    /\ mop' = "check_timeout"
    /\ UNCHANGED <<polled, device_cursor>>
    /\ UNCHANGED <<now, queueVars, regVars, waiter, client, scan, todoVars, dictated>>

\* transcript = audio.listen(timeout=0.5); if transcript: result = parser.parse(transcript),
\* then handle_state_change, handle_command (the next step) or the 'not recognized' text
\* raises: a collaborator called by handle_state_change, or display.show_text, raises
MainListen(transcript, raises) ==
    /\ pc = "listen"
    /\ IF transcript = EmptyStr
       THEN /\ ~raises
            /\ pc' = "poll"
            /\ mop' = "silence"
            /\ UNCHANGED parserVars
            /\ UNCHANGED dispVars
       ELSE LET res == ParseOf(current_state, last_command_time, state_data,
                               transcript, now).res IN
            /\ ParseStep(transcript)
            /\ mop' = "parse"
            /\ raises => \/ AfterParse(res) = "state_change" /\ res.new_state \in RenderedStates
                         \/ AfterParse(res) = "unrecognized"
            /\ IF raises THEN LoopRaises
               ELSE /\ pc' = CASE AfterParse(res) = "command" -> "command"
                                [] AfterParse(res) = "unrecognized" -> "restore"
                                [] OTHER -> "poll"
                    /\ screen' = CASE AfterParse(res) = "state_change" ->
                                         HandleStateChangeOf(res.new_state, screen)
                                   [] AfterParse(res) = "unrecognized" -> "not_recognized"
                                   [] OTHER -> screen
                    /\ UNCHANGED <<teardown, cause>>
    /\ UNCHANGED <<polled, device_cursor>>
    /\ UNCHANGED <<now, queueVars, regVars, waiter, client, scan, todoVars, dictated>>

\* after await asyncio.sleep(1.5): handle_state_change(parser.get_current_state(), ...)
MainRestore(raises) ==
    /\ pc = "restore"
    /\ raises => current_state \in RenderedStates
    /\ IF raises THEN LoopRaises
       ELSE /\ pc' = "poll"
            /\ screen' = HandleStateChangeOf(current_state, screen)
            /\ UNCHANGED <<teardown, cause>>
    /\ mop' = "restore"
    /\ UNCHANGED <<polled, device_cursor>>
    /\ UNCHANGED <<now, parserVars, queueVars, regVars, waiter, client, scan, todoVars, dictated>>

\* device_cursor = await handle_command(result, ...)
\* raises: a collaborator raises inside handle_command's try, and the except branch
\* shows the error text
MainCommand(outcome, raises) ==
    /\ pc = "command"
    /\ LET h == HandleCommandOf(result, current_state, device_cursor, mock, devices, order,
                                now, outcome) IN
       /\ device_cursor' = h.device_cursor
       /\ devices' = h.devices
       /\ IF h.connect # <<>> THEN ConnectStep(h.connect[1]) ELSE UNCHANGED parserVars
       /\ screen' = IF raises THEN "error_text"
                    ELSE CommandScreenOf(result, current_state, screen, mock, devices, now,
                                         outcome, h.connect)
    /\ \E saved \in BOOLEAN :
           LET c == TodoCommandOf(result, current_state, todos, cursor_index, saved) IN
           IF c.name = None THEN UNCHANGED todoVars
           ELSE TodoStep(c.name, c.text, saved, c.r)
    /\ pc' = "poll"
    /\ mop' = "command"
    /\ UNCHANGED <<polled, mock, order, rop, config, loader>>
    /\ UNCHANGED <<now, queueVars, waiter, client, teardown, cause, scan, dictated>>

\* the shutdown signal: sys.exit(0) in the signal handler, or KeyboardInterrupt, leaves
\* the loop for the finally block
MainShutdown ==
    /\ pc \notin {"finally", "stopped"}
    /\ pc' = "finally"
    /\ cause' = "signal"
    /\ mop' = "shutdown"
    /\ UNCHANGED <<polled, device_cursor, screen, teardown>>
    /\ UNCHANGED <<now, parserVars, queueVars, regVars, waiter, client, scan, todoVars, dictated>>

\* the statements of the finally block, in the order of the source
TeardownSteps == <<"display.clear", "display.disconnect", "registry.stop",
                   "interrupt_manager.stop">>

\* the finally block, one statement at a time: display.clear(), display.disconnect(),
\* registry.stop(), interrupt_manager.stop()
MainTeardown ==
    /\ pc = "finally"
    /\ LET step == TeardownSteps[Len(teardown) + 1] IN
       /\ teardown' = Append(teardown, step)
       /\ screen' = IF step = "display.clear" THEN "blank" ELSE screen
       /\ scan' = IF step = "registry.stop" THEN RegistryStopOf(scan) ELSE scan
       /\ IF step = "interrupt_manager.stop"
          THEN StopStep /\ pc' = "stopped"
          ELSE UNCHANGED queueVars /\ pc' = "finally"
    /\ mop' = "teardown"
    /\ UNCHANGED <<polled, device_cursor, cause>>
    /\ UNCHANGED <<now, parserVars, regVars, waiter, client, todoVars, dictated>>

MainNext ==
    \/ \E p \in Producers, ty \in InterruptTypes : PushBegin(p, ty)
    \/ \E p \in Producers : PushPut(p)
    \/ MainPoll(FALSE)
    \/ MainCheckTimeout(FALSE)
    \/ \E t \in MainTranscripts \cup {EmptyStr} : MainListen(t, FALSE)
    \/ MainRestore(FALSE)
    \/ \E o \in Outcomes : MainCommand(o, FALSE)
    \/ MainShutdown
    \/ MainTeardown

\* what audio.listen() hears in a session that visits the menus and a device
OrchTranscripts == {S_hey_iris, S_translation, S_connect, S_buy_milk}

\* the main loop with collaborators that can raise, up to the end of the process
OrchNext ==
    \/ Tick
    \/ \E ty \in InterruptTypes : PushBegin("p1", ty)
    \/ PushPut("p1")
    \/ \E raises \in BOOLEAN : MainPoll(raises)
    \/ \E raises \in BOOLEAN : MainCheckTimeout(raises)
    \/ \E t \in OrchTranscripts \cup {EmptyStr}, raises \in BOOLEAN : MainListen(t, raises)
    \/ \E raises \in BOOLEAN : MainRestore(raises)
    \/ \E o \in Outcomes, raises \in BOOLEAN : MainCommand(o, raises)
    \/ MainShutdown
    \/ MainTeardown

\* the main loop with nothing said, motion interrupts arriving and time passing
OverlayNext ==
    \/ Tick
    \/ \E ty \in InterruptTypes : PushBegin("p1", ty)
    \/ PushPut("p1")
    \/ MainPoll(FALSE)
    \/ MainCheckTimeout(FALSE)
    \/ MainListen(EmptyStr, FALSE)

\* the event loop is running: the loop goes from one of its statements to the next
LoopAdvances ==
    /\ pc \in {"poll", "timeout", "listen"}
    /\ pc' \in {"poll", "timeout", "listen"}
    /\ pc' # pc

\* the clock is running
TimePasses == now < MaxTime /\ now' = now + 1

\* what audio.listen() hears in a session that is then left alone
IdleTranscripts == {S_hey_iris, S_todo, S_add, S_connect}

\* the time by which a session that fell silent within the first timeout period has
\* seen two more periods go by
Horizon == 3 * TimeoutSeconds

\* audio.listen(timeout=0.5) blocks: the clock moves on while the loop listens, and an
\* iteration of the loop takes less than a tick
LoopTick ==
    /\ pc = "listen"
    /\ mop = "check_timeout"
    /\ now < Horizon
    /\ now' = now + 1
    /\ op' = "tick"
    /\ mop' = "listening"
    /\ UNCHANGED <<current_state, last_command_time, state_data, result, timeout_result,
                   pre, last_call, last_heard, idle_returns, flow, written>>
    /\ UNCHANGED <<pc, polled, device_cursor>>
    /\ UNCHANGED <<queueVars, regVars, svcVars>>

\* the user speaks, within the first timeout period of the session
Speech(transcript) ==
    /\ now < TimeoutSeconds
    /\ MainListen(transcript, FALSE)

\* the main loop of a session that falls silent, with motion interrupts arriving
IdleNext ==
    \/ LoopTick
    \/ \E ty \in InterruptTypes : PushBegin("p1", ty)
    \/ PushPut("p1")
    \/ MainPoll(FALSE)
    \/ MainCheckTimeout(FALSE)
    \/ \E t \in IdleTranscripts : Speech(t)
    \/ MainListen(EmptyStr, FALSE)
    \/ MainRestore(FALSE)
    \/ MainCommand("ok", FALSE)

\* the event loop is running, in a session where every branch of the loop is taken
LoopRuns ==
    /\ pc \in {"poll", "timeout", "listen", "restore", "command"}
    /\ pc' \in {"poll", "timeout", "listen", "restore", "command"}
    /\ pc' # pc

\* the clock is running while the loop listens
ListenTakesTime == pc = "listen" /\ mop = "check_timeout" /\ now < Horizon /\ now' = now + 1

\* what audio.listen() hears in a session that dictates a todo
TodoTranscripts == {S_hey_iris, S_todo, S_list, S_add, S_buy_milk, S_confirm, S_cancel,
                    S_down, S_cross}

\* the main loop in the todo states
TodoLoopNext ==
    \/ MainPoll(FALSE)
    \/ MainCheckTimeout(FALSE)
    \/ \E t \in TodoTranscripts \cup {EmptyStr} : MainListen(t, FALSE)
    \/ MainRestore(FALSE)
    \/ \E o \in Outcomes : MainCommand(o, FALSE)

\* the device types that discovery reports while the device list is on screen
ListedTypes == {"light", "fan", "glasses"}

\* what audio.listen() hears on the way to the device list and in it
ListTranscripts == {S_hey_iris, S_connect, S_up, S_down, S_two, S_3, S_back}

\* the main loop in the device list, with the listener recording sightings
ListNext ==
    \/ \E d \in ListedTypes : Sighting(d, A_192_168_1_20, 80)
    \/ \E d \in ListedTypes : RemoveService(d)
    \/ MainPoll(FALSE)
    \/ MainCheckTimeout(FALSE)
    \/ \E t \in ListTranscripts \cup {EmptyStr} : MainListen(t, FALSE)
    \/ MainRestore(FALSE)
    \/ \E o \in Outcomes : MainCommand(o, FALSE)

----------------------------------------------------------------------------
(* core/iot.py: IoTClient.send_command *)

\* what the HTTP request of send_command can come to: a response, a
\* requests.RequestException, or another exception
SendOutcomes == {"ok", "fail", "error"}

\* a slip: the failed device is not marked offline
SendCommandOf_NoMark(is_mock, devs, device_type, t, outcome) ==
    IF is_mock THEN [devices |-> devs, contacted |-> FALSE, error |-> None]
    ELSE LET g == GetDeviceOf(is_mock, devs, device_type, t) IN
         IF g.ret = <<>> \/ ~g.ret[1].online
         THEN [devices |-> g.devices, contacted |-> FALSE, error |-> "DeviceOfflineError"]
         ELSE [devices |-> g.devices, contacted |-> TRUE,
               error |-> IF outcome = "ok" THEN None ELSE "DeviceOfflineError"]

\* send_command(device_type, command) at time t, the request coming to outcome: the
\* registry it leaves, whether the device was contacted, and the error raised
SendCommandOf(is_mock, devs, device_type, t, outcome) ==
    IF is_mock THEN [devices |-> devs, contacted |-> FALSE, error |-> None]
    ELSE LET g == GetDeviceOf(is_mock, devs, device_type, t) IN
         IF g.ret = <<>> \/ ~g.ret[1].online
         THEN [devices |-> g.devices, contacted |-> FALSE, error |-> "DeviceOfflineError"]
         ELSE [devices |-> IotSendOf(is_mock, devs, device_type, t, outcome),
               contacted |-> TRUE,
               error |-> IF outcome = "ok" THEN None ELSE "DeviceOfflineError"]

\* iot.send_command(device_type, command)
SendCommand(device_type, outcome) ==
    LET c == SendCommandOf(mock, devices, device_type, now, outcome) IN
    /\ devices' = c.devices
    /\ client' = [name |-> "send_command", type |-> device_type,
                  was_online |-> IsDeviceOnlineOf(mock, devices, device_type, now).ret,
                  outcome |-> IF c.contacted THEN outcome ELSE None,
                  contacted |-> c.contacted, error |-> c.error]
    /\ rop' = [name |-> "send_command", type |-> device_type, at |-> now,
               before |-> Registered(device_type), dev |-> <<>>, all |-> {},
               flag |-> FALSE]
    /\ UNCHANGED <<mock, order, config, loader>>
    /\ UNCHANGED <<now, parserVars, queueVars, mainVars, waiter, dispVars, scan, todoVars, dictated>>

SendNext ==
    \/ Tick
    \/ \E a \in Addresses : Sighting("light", a, 80)
    \/ RemoveService("light")
    \/ IsDeviceOnline("light")
    \/ DiscoverAll
    \/ LoadManualCheck
    \/ LoadManualWrite
    \/ DiscoverAllReturn
    \/ \E outcome \in SendOutcomes : SendCommand("light", outcome)

----------------------------------------------------------------------------
(* Specifications *)

vars == <<now, parserVars, queueVars, regVars, mainVars, svcVars>>

\* the components after construction, the registry created with mock=is_mock
InitWith(is_mock) ==
    now = 0 /\ ParserInit /\ QueueInit /\ RegistryInit(is_mock) /\ MainInit /\ ServicesInit

\* a session started with --mock
InitMock == InitWith(TRUE)

\* a session on real hardware
InitReal == InitWith(FALSE)

\* either
Init == \E is_mock \in BOOLEAN : InitWith(is_mock)

\* a session whose config.yaml has one of the manual_devices sections
InitManual ==
    \/ InitMock
    \/ \E cfg \in ManualConfigs :
           /\ now = 0 /\ ParserInit /\ QueueInit /\ RegistryCreate(FALSE, cfg)
           /\ MainInit /\ ServicesInit

\* the parser driven through its operations, in any order
SpecParser == InitMock /\ [][ParserNext]_vars

\* the interrupt queue under concurrent producers, the consumer and clear_queue()
SpecQueue == InitReal /\ [][QueueNext]_vars

\* the registry under discovery sightings, removals and reads
SpecRegistry == Init /\ [][RegistryNext]_vars

\* the connected states
SpecConnected == InitMock /\ [][ConnectedNext]_vars

\* the routing of transcripts by state
SpecRouting == InitMock /\ [][RoutingNext]_vars

\* the device list, scrolled and connected from, under discovery
SpecList == InitReal /\ [][ListNext]_vars

\* the rescan worker, started and stopped, beside the listener
SpecScan == InitManual /\ [][ScanNext]_vars

\* the step of the worker that ends a round, as the scan record sees it
ScanRoundEnds == scan.thread = "round" /\ scan' = [scan EXCEPT !.thread = "wait"]

\* the same, the worker's thread being scheduled: its wait on the stop event returns
\* and its round comes to an end
SpecScanFair == SpecScan /\ WF_scan(ScanWait) /\ WF_scan(ScanRoundEnds)

\* the orchestrator: its screens, the failures of its collaborators, its teardown
SpecOrch == InitMock /\ [][OrchNext]_vars

\* a session in which nothing is said: the loop and the clock keep running
SpecOverlayFair ==
    InitMock /\ [][OverlayNext]_vars /\ WF_pc(LoopAdvances) /\ WF_now(TimePasses)

\* a session that falls silent: the loop keeps running and time keeps passing
SpecIdleFair ==
    InitMock /\ [][IdleNext]_vars /\ WF_pc(LoopRuns) /\ SF_now(ListenTakesTime)

\* the todo store, its methods called in any order, save() failing or not
SpecTodo == InitMock /\ [][TodoNext]_vars

\* the parser dictated todos
SpecDictate == InitMock /\ [][DictateNext]_vars

\* the orchestrator in the todo states
SpecTodoLoop == InitMock /\ [][TodoLoopNext]_vars

\* send_command against the listener and the scan
SpecSend == InitManual /\ [][SendNext]_vars

\* wait_for_device against the listener
SpecWait == InitManual /\ [][WaitNext]_vars

\* the registry under discovery, the scan that loads the manual devices, and
\* add_manual_device
SpecManual == InitManual /\ [][ManualNext]_vars

\* a --mock session: the orchestrator loop against the request threads that push
\* interrupts, within one tick of the clock (no timeout expires)
SpecMain == InitMock /\ [][MainNext]_vars

----------------------------------------------------------------------------
(* Timeout classification *)

PlainTimeoutSet == {"MAIN_MENU", "TODO_LIST", "DEVICE_LIST"}

NeverTimeoutSet == {"IDLE", "TRANSLATION", "CONNECTED_LIGHT", "CONNECTED_FAN",
                    "CONNECTED_MOTION", "CONNECTED_DISTANCE", "CONNECTED_GLASSES",
                    "TODO_MENU", "TODO_INSTRUCTIONS"}

\* C1: in a no-timeout state (IDLE, TRANSLATION, the CONNECTED_* states) and in an
\* unclassified state (TODO_MENU, TODO_INSTRUCTIONS) check_timeout() returns no
\* transition and leaves current_state as it was, whatever time has elapsed.
C1_NoTimeoutStatesNeverExpire ==
    (op = "check_timeout" /\ pre.state \in NeverTimeoutSet)
        => (timeout_result = None /\ current_state = pre.state)

\* C1 witness: check_timeout() was called in an unclassified state after more than a
\* timeout period without any call, and returned None.
C1_Witness ==
    /\ op = "check_timeout"
    /\ pre.state = "TODO_MENU"
    /\ pre.idle_call > TimeoutSeconds
    /\ timeout_result = None
    /\ current_state = "TODO_MENU"

\* C2 as stated: in a plain-timeout state check_timeout() returns IDLE (and moves to
\* IDLE) once timeout_seconds have elapsed since the last parse() call or state
\* transition, returns None and changes nothing before that, and returns IDLE at most
\* once while no parse() intervenes.
C2_AsStated ==
    /\ (op = "check_timeout" /\ pre.state \in PlainTimeoutSet /\ pre.idle_call >= TimeoutSeconds)
          => (current_state = "IDLE" /\ timeout_result = "IDLE")
    /\ (op = "check_timeout" /\ pre.state \in PlainTimeoutSet /\ pre.idle_call < TimeoutSeconds)
          => (timeout_result = None /\ current_state = pre.state /\ state_data = pre.data)
    /\ idle_returns <= 1

\* C2 amended: the same, the elapsed time being counted from the last parse() call with
\* a non-empty transcript or the last state transition (parse("") returns at once and
\* does not refresh last_command_time).
C2_PlainTimeoutOnce ==
    /\ (op = "check_timeout" /\ pre.state \in PlainTimeoutSet /\ pre.idle_heard >= TimeoutSeconds)
          => (current_state = "IDLE" /\ timeout_result = "IDLE")
    /\ (op = "check_timeout" /\ pre.state \in PlainTimeoutSet /\ pre.idle_heard < TimeoutSeconds)
          => (timeout_result = None /\ current_state = pre.state /\ state_data = pre.data)
    /\ idle_returns <= 1

\* C2 witness: a check_timeout() in MAIN_MENU exactly timeout_seconds after the wake
\* phrase returned IDLE and left the parser in IDLE.
C2_Witness ==
    /\ op = "check_timeout"
    /\ pre.state = "MAIN_MENU"
    /\ pre.idle_heard = TimeoutSeconds
    /\ timeout_result = "IDLE"
    /\ current_state = "IDLE"
    /\ idle_returns = 1

\* C3: in TODO_ADD, once timeout_seconds have elapsed without a parse() call,
\* check_timeout() moves to TODO_LIST and returns TODO_LIST (not IDLE); the dictated
\* text is gone and the timeout hands out no action (the last ParseResult is untouched).
C3_TodoAddTimesOutToList ==
    (op = "check_timeout" /\ pre.state = "TODO_ADD" /\ pre.idle_call >= TimeoutSeconds)
        => /\ current_state = "TODO_LIST"
           /\ timeout_result = "TODO_LIST"
           /\ "captured_text" \notin DOMAIN state_data
           /\ result.action = pre.action
           /\ result.action # "add_todo"

\* C3 witness: the timeout fired in TODO_ADD while a dictated text was stored.
C3_Witness ==
    /\ op = "check_timeout"
    /\ pre.state = "TODO_ADD"
    /\ pre.idle_call >= TimeoutSeconds
    /\ "captured_text" \in DOMAIN pre.data
    /\ current_state = "TODO_LIST"

----------------------------------------------------------------------------
(* Per-state transient data *)

\* C4: every state change, by parse(), check_timeout() or a connect action, leaves the
\* per-state data empty and last_command_time at the current time; whatever is readable
\* was stored since the parser entered the state it is in.
C4_StateChangeClearsData ==
    /\ (op \in {"parse", "check_timeout", "connect"} /\ current_state # pre.state)
          => (state_data = NoData /\ last_command_time = now)
    /\ DOMAIN state_data \subseteq written

\* C4 witness: the parser left a state that held data, through a connect action.
C4_Witness ==
    /\ op = "connect"
    /\ current_state # pre.state
    /\ pre.data # NoData
    /\ state_data = NoData

----------------------------------------------------------------------------
(* The todo-add flow *)

\* C5 as stated: after 'hey iris', 'todo', 'add', t, 'confirm' from IDLE, for any dictated
\* t other than 'confirm' and 'cancel', the parser is in TODO_LIST and the last parse()
\* returned add_todo with text t.
C5_AsStated ==
    flow.step = 5
        => /\ current_state = "TODO_LIST"
           /\ result = ParseResult("TODO_LIST", "add_todo", [text |-> flow.text])

\* C5 amended: the same for any t that is, once a leading 'iris ' token is removed,
\* non-empty and other than 'confirm' and 'cancel'; the text of add_todo is t without
\* that token.
C5_TodoAddScenario ==
    (flow.step = 5 /\ Heard(flow.text) \notin {S_confirm, S_cancel, EmptyStr})
        => /\ current_state = "TODO_LIST"
           /\ result = ParseResult("TODO_LIST", "add_todo", [text |-> Heard(flow.text)])

\* C5 witness: the scenario ran to its end with t = 'buy milk'.
C5_Witness ==
    /\ flow = [step |-> 5, text |-> S_buy_milk]
    /\ current_state = "TODO_LIST"
    /\ result.action = "add_todo"

\* a parse() of a non-empty transcript in TODO_ADD
TodoAddParsed == op = "parse" /\ pre.state = "TODO_ADD" /\ pre.input # EmptyStr

Captured == GetData(pre.data, "captured_text", EmptyStr)

TodoAddCancel ==
    (TodoAddParsed /\ Heard(pre.input) = S_cancel)
        => /\ result = ParseResult("TODO_LIST", None, NoData)
           /\ current_state = "TODO_LIST"
           /\ state_data = NoData

TodoAddCapture ==
    (TodoAddParsed /\ Heard(pre.input) \notin {S_confirm, S_cancel})
        => /\ result = ParseResult(None, "capture_todo_text", [text |-> Heard(pre.input)])
           /\ current_state = "TODO_ADD"
           /\ "captured_text" \in DOMAIN state_data
           /\ state_data["captured_text"] = Heard(pre.input)

\* C6 as stated: in TODO_ADD 'confirm' always emits add_todo with the captured text and
\* moves to TODO_LIST; 'cancel' moves to TODO_LIST without an action; any other transcript
\* is stored under captured_text, echoed as capture_todo_text, and stays in TODO_ADD.
C6_AsStated ==
    /\ (TodoAddParsed /\ Heard(pre.input) = S_confirm)
          => /\ result = ParseResult("TODO_LIST", "add_todo", [text |-> Captured])
             /\ current_state = "TODO_LIST"
    /\ TodoAddCancel
    /\ TodoAddCapture

\* C6 amended: 'confirm' emits add_todo and moves to TODO_LIST only when a non-empty text
\* has been captured; with nothing captured it returns an empty ParseResult and the
\* parser stays in TODO_ADD.  The rest as stated.
C6_TodoAddCommands ==
    /\ (TodoAddParsed /\ Heard(pre.input) = S_confirm /\ Captured # EmptyStr)
          => /\ result = ParseResult("TODO_LIST", "add_todo", [text |-> Captured])
             /\ current_state = "TODO_LIST"
    /\ (TodoAddParsed /\ Heard(pre.input) = S_confirm /\ Captured = EmptyStr)
          => /\ result = EmptyResult
             /\ current_state = "TODO_ADD"
             /\ state_data = pre.data
    /\ TodoAddCancel
    /\ TodoAddCapture

\* C6 witness: 'confirm' arrived in TODO_ADD with nothing captured.
C6_Witness ==
    /\ TodoAddParsed
    /\ pre.input = S_confirm
    /\ Captured = EmptyStr
    /\ current_state = "TODO_ADD"

----------------------------------------------------------------------------
(* The interrupt channel *)

\* C7: push never blocks and the queue never grows beyond its capacity: a push that
\* finds the queue at capacity returns False and leaves the queued interrupts as they
\* were, under any interleaving of the producers, the consumer and clear_queue().
C7_PushNeverBlocks ==
    /\ Len(queue) <= MaxQueueSize
    /\ (qop.name = "push" /\ Len(qpre) = MaxQueueSize) => (qop.ret = "False" /\ queue = qpre)
    /\ \A p \in Producers : ppc[p] = "put" => ENABLED PushPut(p)

\* C7 witness: a push found the running channel at capacity and returned False.
C7_Witness ==
    /\ qop.name = "push"
    /\ running
    /\ Len(qpre) = MaxQueueSize
    /\ qop.ret = "False"
    /\ queue = qpre

\* C8: clear_queue() returns the number of interrupts it removed and leaves the queue
\* empty when it returns; run with no push or poll taking effect meanwhile it returns the
\* queue length it found, so after capacity+1 pushes without a poll it returns capacity.
C8_ClearQueueCounts ==
    qop.name = "clear_queue"
        => /\ queue = <<>>
           /\ clear_ret = Len(clear_taken)
           /\ clear_alone => clear_ret = clear_start

\* C8 witness: capacity+1 pushes, the last refused, no poll, then clear_queue()
\* returned capacity.
C8_Witness ==
    /\ qop.name = "clear_queue"
    /\ next_id = MaxQueueSize + 1
    /\ Len(accepted) = MaxQueueSize
    /\ \E p \in Producers : push_ret[p] = "False"
    /\ handled = <<>>
    /\ clear_ret = MaxQueueSize
    /\ queue = <<>>

----------------------------------------------------------------------------
(* Registry staleness *)

\* now minus last_seen exceeds the staleness window, at the time t of a read
SeenTooLongAgo(device, t) == t - device.last_seen > StaleWindow

StaleReadsOffline ==
    /\ (rop.name = "get_device" /\ rop.dev # <<>> /\ SeenTooLongAgo(rop.dev[1], rop.at))
          => ~rop.dev[1].online
    /\ (rop.name = "is_device_online" /\ rop.before # <<>>
            /\ SeenTooLongAgo(rop.before[1], rop.at))
          => ~rop.flag
    /\ rop.name = "get_all_online" => \A d \in rop.all : ~SeenTooLongAgo(d, rop.at)

PutOrder(id) == CHOOSE i \in DOMAIN accepted : accepted[i] = id

\* the interrupts the consumer has been handed so far
HandledIds == {handled[i] : i \in DOMAIN handled}

\* C9: interrupts reach the main loop in the order they were put on the queue (each
\* one polled was put before the one polled after it and before every interrupt still
\* queued, and the one handled is the oldest the poll found), and they come before
\* voice input: the loop reaches check_timeout, listen, parse and handle_command only
\* from a poll that found the queue empty, so no interrupt that was queued at the
\* iteration's poll is still unhandled when the iteration's transcript is parsed.
C9_InterruptsFirstInOrder ==
    /\ \A i, j \in DOMAIN handled : i < j => PutOrder(handled[i]) < PutOrder(handled[j])
    /\ \A i, j \in DOMAIN queue : i < j => PutOrder(queue[i].id) < PutOrder(queue[j].id)
    /\ \A i \in DOMAIN handled, k \in DOMAIN queue :
           PutOrder(handled[i]) < PutOrder(queue[k].id)
    /\ mop = "handle_interrupt" =>
           /\ polled # <<>>
           /\ handled[Len(handled)] = polled[1].id
           /\ pc = "poll"
    /\ pc \in {"timeout", "listen", "command"} => polled = <<>>
    /\ mop \in {"check_timeout", "silence", "parse", "command"} => polled = <<>>
    /\ mop = "parse" => \A i \in DOMAIN polled : polled[i].id \in HandledIds

\* C9 witness: a transcript is parsed after two interrupts were handled, while a later
\* interrupt is already waiting
C9_Witness ==
    /\ mop = "parse"
    /\ Len(handled) >= 2
    /\ queue # <<>>

----------------------------------------------------------------------------
(* Manual devices *)

\* a dotted quad: four parts, each one to three decimal digits writing 0..255
DottedQuad(ip) ==
    LET parts == SplitDot(ip) IN
    /\ Len(parts) = 4
    /\ \A i \in 1..4 :
           /\ Len(parts[i]) \in 1..3
           /\ \A j \in DOMAIN parts[i] : parts[i][j] \in DecimalDigits
           /\ DecimalValue(parts[i]) <= 255

\* an address no record may hold: empty, a placeholder, '0.0.0.0', or no IPv4 address
BadAddress(ip) == ip = <<>> \/ ip \in Placeholders \/ ~DottedQuad(ip)

\* C11 as stated: after any sequence of registry operations no record holds an
\* address that is '0.0.0.0', empty, a placeholder string, or not a valid IPv4
\* address.
C11_AsStated == \A d \in DOMAIN devices : ~BadAddress(devices[d].ip)

\* C12 as stated: loading manual devices never replaces the record of a device type
\* that is recorded online from discovery at the moment the manual record is stored.
C12_AsStated ==
    rop.name = "load_manual" =>
        ~(rop.before # <<>> /\ rop.before[1].online /\ rop.before[1].ip \in Addresses)

(* Registry records *)

\* the device types a record was ever stored for, in the order of their first record
EverRecorded == {order[i] : i \in DOMAIN order}

\* C13: the registry holds at most one record per device type, filed under its own
\* type, and never removes one: every type that was ever recorded still has a record,
\* get_device on such a type returns a record of that type, and a sighting of a type
\* leaves the sighting's record in place of whatever was recorded before.
C13_OneRecordNeverRemoved ==
    /\ DOMAIN devices = EverRecorded
    /\ \A i, j \in DOMAIN order : order[i] = order[j] => i = j
    /\ \A d \in DOMAIN devices : devices[d].device_type = d
    /\ (rop.name = "get_device" /\ rop.type \in EverRecorded) =>
           /\ rop.dev # <<>>
           /\ rop.dev[1].device_type = rop.type
    /\ rop.name = "sighting" => Registered(rop.type) = rop.dev
    /\ rop.name = "remove_service" => Registered(rop.type) # <<>>

\* C13 witness: get_device returns the record of a type whose advertisement was
\* withdrawn and whose last sighting is older than the staleness window
C13_Witness ==
    /\ ~mock
    /\ rop.name = "get_device"
    /\ rop.before # <<>>
    /\ ~rop.before[1].online
    /\ SeenTooLongAgo(rop.before[1], rop.at)
    /\ rop.dev # <<>>

\* the records with last_seen left out of the comparison
ApartFromLastSeen(devs) == [d \in DOMAIN devs |-> [devs[d] EXCEPT !.last_seen = 0]]

\* C14: recording a sighting never fails and is an idempotent upsert: right after a
\* sighting the record of its type is online, has last_seen = now and the sighted
\* address, whatever was recorded before; and recording the same sighting again, at
\* any later time, leaves the registry as it is apart from last_seen.
C14_SightingIdempotentUpsert ==
    /\ ~mock => \A d \in SightedTypes, a \in Addresses : ENABLED Sighting(d, a, 80)
    /\ rop.name = "sighting" =>
           /\ rop.dev # <<>>
           /\ rop.dev[1].ip \in Addresses
           /\ Registered(rop.type) = rop.dev
           /\ devices[rop.type].online
           /\ devices[rop.type].last_seen = rop.at
           /\ \A t \in now..MaxTime :
                  LET again == [rop.dev[1] EXCEPT !.last_seen = t] IN
                  /\ ApartFromLastSeen(PutDevice(devices, again)) = ApartFromLastSeen(devices)
                  /\ PutDevice(devices, again)[rop.type].last_seen = t
                  /\ PutKey(order, rop.type) = order

\* C14 witness: a sighting of a type whose record was offline and last seen longer
\* ago than the staleness window
C14_Witness ==
    /\ rop.name = "sighting"
    /\ rop.before # <<>>
    /\ ~rop.before[1].online
    /\ SeenTooLongAgo(rop.before[1], rop.at)
    /\ devices[rop.type].online

(* Parser: timestamp refresh *)

\* the parse() call just made left last_command_time = now, and if it left the parser
\* in a plain-timeout state, check_timeout() returns None until a full timeout period
\* has passed from now, and IDLE from then on
RefreshedByParse ==
    /\ last_command_time = now
    /\ current_state \in PlainTimeoutSet =>
           \A t \in now..(MaxTime + TimeoutSeconds) :
               CheckTimeoutOf(current_state, last_command_time, state_data, t).ret =
                   IF t - now < TimeoutSeconds THEN None ELSE "IDLE"

\* C15 as stated: every call to parse() refreshes last_command_time, whether or not
\* the transcript produces a transition or an action, so that in a plain-timeout state
\* the timeout is postponed by a full period.
C15_AsStated == op = "parse" => RefreshedByParse

\* C15 amended: every call to parse() with a non-empty transcript does
\* (parse("") returns before the refresh).
C15_NonEmptyParseRefreshes == (op = "parse" /\ pre.input # EmptyStr) => RefreshedByParse

\* C15 witness: in MAIN_MENU, with the timeout one tick away, a transcript that matches
\* no rule was parsed: no transition, no action, and the timestamp is now
C15_Witness ==
    /\ op = "parse"
    /\ pre.state = "MAIN_MENU"
    /\ pre.input = S_buy_milk
    /\ pre.idle_heard = TimeoutSeconds - 1
    /\ result = EmptyResult
    /\ current_state = "MAIN_MENU"
    /\ last_command_time = now

(* Parser: routing by state *)

MainMenuTarget(t) ==
    IF t \in {S_todo, S_1, S_one} THEN "TODO_MENU"
    ELSE IF t \in {S_weather, S_translation, S_2, S_two} THEN "TRANSLATION"
    ELSE IF t \in {S_connect, S_3, S_three} THEN "DEVICE_LIST"
    ELSE IF t = S_back THEN "IDLE"
    ELSE None

C18_AsStated ==
    /\ (op = "parse" /\ pre.state = "MAIN_MENU" /\ pre.input = S_todo) =>
           /\ result.new_state = "TODO_LIST"
           /\ current_state = "TODO_LIST"
    /\ (op = "parse" /\ flow.step = 2) => current_state = "TODO_LIST"

\* C19 as stated: in TRANSLATION 'end' and every transcript containing 'iris end'
\* transition to MAIN_MENU; every other transcript is the text, unchanged, of a
\* 'translate' action and leaves the state TRANSLATION.
C19_AsStated ==
    (op = "parse" /\ pre.state = "TRANSLATION") =>
        IF pre.input = S_end \/ Contains(pre.input, S_iris_end)
        THEN /\ result.new_state = "MAIN_MENU"
             /\ current_state = "MAIN_MENU"
        ELSE /\ result = ParseResult(None, "translate", [text |-> pre.input])
             /\ current_state = "TRANSLATION"

\* the digits and digit words, with the number each one says
Spoken ==
    {<<S_1, 1>>, <<S_2, 2>>, <<S_3, 3>>, <<S_4, 4>>, <<S_5, 5>>, <<S_6, 6>>, <<S_7, 7>>,
     <<S_8, 8>>, <<S_9, 9>>, <<S_one, 1>>, <<S_two, 2>>, <<S_three, 3>>, <<S_four, 4>>,
     <<S_five, 5>>, <<S_six, 6>>, <<S_seven, 7>>, <<S_eight, 8>>, <<S_nine, 9>>}

\* C20: in DEVICE_LIST the transcript, as the state's handler receives it, yields
\* connect_numbered with the 0-based index digit-1 for a bare digit '1'..'9' or digit
\* word 'one'..'nine', scroll_up/scroll_down for 'up'/'down', connect_current for
\* 'connect', connect_named with the name for 'connect <name>', all of them leaving
\* the state DEVICE_LIST, and 'back' transitions to MAIN_MENU.
C20_DeviceListRouting ==
    (op = "parse" /\ pre.state = "DEVICE_LIST") =>
        LET t == Heard(pre.input) IN
        /\ \A p \in Spoken : t = p[1] =>
               result = ParseResult(None, "connect_numbered", [index |-> p[2] - 1])
        /\ t = S_up => result = ParseResult(None, "scroll_up", NoData)
        /\ t = S_down => result = ParseResult(None, "scroll_down", NoData)
        /\ t = S_connect => result = ParseResult(None, "connect_current", NoData)
        /\ t = S_connect_light =>
               result = ParseResult(None, "connect_named", [name |-> S_light])
        /\ StartsWith(t, S_connect_) =>
               /\ result.action = "connect_named"
               /\ S_connect_ \o result.data.name = t
        /\ t = S_back => result = ParseResult("MAIN_MENU", None, NoData)
        /\ current_state = IF t = S_back THEN "MAIN_MENU" ELSE "DEVICE_LIST"

\* C20 witness: 'nine' in DEVICE_LIST yielded connect_numbered with index 8 and left
\* the parser in DEVICE_LIST
C20_Witness ==
    /\ op = "parse"
    /\ pre.state = "DEVICE_LIST"
    /\ pre.input = S_nine
    /\ result = ParseResult(None, "connect_numbered", [index |-> 8])
    /\ current_state = "DEVICE_LIST"

(* Parser: connected states *)

ConnectedStates ==
    {"CONNECTED_LIGHT", "CONNECTED_FAN", "CONNECTED_MOTION", "CONNECTED_DISTANCE",
     "CONNECTED_GLASSES"}

\* the action each connected state gives for a device command (None: no action)
ConnectedAction(state, t) ==
    IF state = "CONNECTED_LIGHT" /\ t = S_on THEN "light_on"
    ELSE IF state = "CONNECTED_LIGHT" /\ t = S_off THEN "light_off"
    ELSE IF state = "CONNECTED_FAN" /\ t = S_on THEN "fan_on"
    ELSE IF state = "CONNECTED_FAN" /\ t = S_off THEN "fan_off"
    ELSE IF state = "CONNECTED_FAN" /\ t = S_low THEN "fan_low"
    ELSE IF state = "CONNECTED_FAN" /\ t = S_high THEN "fan_high"
    ELSE IF state = "CONNECTED_MOTION" /\ t = S_on THEN "motion_on"
    ELSE IF state = "CONNECTED_MOTION" /\ t = S_off THEN "motion_off"
    ELSE IF state = "CONNECTED_GLASSES" /\ StartsWith(t, S_send_) THEN "send_message"
    ELSE None

\* C21: in every CONNECTED_* state the transcript, as the state's handler receives
\* it, transitions to DEVICE_LIST for 'back' and otherwise leaves the state as it is:
\* on/off (and low/high for the fan) give the light_, fan_ and motion_ actions with no
\* data, 'send <message>' in CONNECTED_GLASSES gives send_message with the remainder
\* as payload, and everything else, every transcript but 'back' in CONNECTED_DISTANCE
\* included, gives an empty ParseResult.
C21_ConnectedCommands ==
    (op = "parse" /\ pre.state \in ConnectedStates) =>
        LET t == Heard(pre.input)
            action == ConnectedAction(pre.state, t)
        IN IF t = S_back
           THEN /\ result = ParseResult("DEVICE_LIST", None, NoData)
                /\ current_state = "DEVICE_LIST"
           ELSE /\ current_state = pre.state
                /\ result.new_state = None
                /\ result.action = action
                /\ action = "send_message" => S_send_ \o result.data.message = t
                /\ action # "send_message" => result.data = NoData
                /\ (pre.state = "CONNECTED_GLASSES" /\ t = S_send_hi) =>
                       result.data = [message |-> S_hi]

\* C21 witness: 'iris high' in CONNECTED_FAN gave fan_high and left the state
C21_Witness ==
    /\ op = "parse"
    /\ pre.state = "CONNECTED_FAN"
    /\ pre.input = S_iris_high
    /\ result = ParseResult(None, "fan_high", NoData)
    /\ current_state = "CONNECTED_FAN"

(* wait_for_device *)

\* wait_for_device(type, timeout) returns only a device that was online when it was
\* returned, after polling the registry and, for every poll that did not find the
\* device online, running discovery again; it starts a poll only while the timeout
\* has not elapsed, and a call that has not returned a device by then ends with the
\* error not_found and returns no device.
WaitContract(not_found) ==
    /\ waiter.ret # <<>> =>
           /\ waiter.stage = "done"
           /\ waiter.error = None
           /\ waiter.ret[1].online
           /\ waiter.ret[1].device_type = waiter.type
    /\ waiter.error # None =>
           /\ waiter.stage = "done"
           /\ waiter.error = not_found
           /\ waiter.ret = <<>>
           /\ now - waiter.start >= waiter.timeout
    /\ waiter.stage = "done" => (waiter.ret # <<>> \/ waiter.error # None)
    /\ waiter.stage \in {"poll", "discover", "sleep"} =>
           waiter.tested - waiter.start < waiter.timeout
    /\ waiter.stage \in {"test", "poll"} => waiter.polls = waiter.rounds
    /\ waiter.stage \in {"discover"} => waiter.polls = waiter.rounds + 1
    /\ (~mock /\ waiter.stage = "done" /\ waiter.ret # <<>>) => waiter.polls = waiter.rounds + 1
    /\ (waiter.stage = "done" /\ waiter.error # None) => waiter.polls = waiter.rounds

\* C22 as stated: wait_for_device returns only a device that is online when it
\* returns, re-polling discovery until then, and ends with NotFoundError, returning no
\* device, if the device does not appear online before the timeout elapses.
C22_AsStated == WaitContract("NotFoundError")

\* C22 amended: the same, the error on timeout being the built-in TimeoutError.
C22_WaitReturnsOnlineOrTimeoutError == WaitContract("TimeoutError")

\* C22 witness: a call that found the device offline, ran discovery again, and
\* returned the device once a later poll found it online
C22_Witness ==
    /\ ~mock
    /\ waiter.stage = "done"
    /\ waiter.ret # <<>>
    /\ waiter.rounds >= 1
    /\ waiter.ret[1].ip \in Addresses

(* send_command *)

\* send_command to a type that is_device_online() does not report online raises
\* DeviceOfflineError without contacting the device; a transport failure raises it
\* too and leaves the record of the type offline, so that is_device_online(type) is
\* false at any later time while the record stays as it is; and a record that was
\* offline is online again only through one of the operations in ops.
SendContract(ops) ==
    /\ (client.name = "send_command" /\ ~client.was_online) =>
           /\ client.error = "DeviceOfflineError"
           /\ ~client.contacted
    /\ (client.name = "send_command" /\ client.outcome = "fail") =>
           /\ client.contacted
           /\ client.error = "DeviceOfflineError"
    /\ (rop.name = "send_command" /\ client.outcome = "fail") =>
           /\ Registered(rop.type) # <<>>
           /\ ~devices[rop.type].online
    /\ \A d \in DOMAIN devices : ~devices[d].online =>
           \A t \in now..MaxTime : ~IsDeviceOnlineOf(mock, devices, d, t).ret
    /\ (rop.before # <<>> /\ ~rop.before[1].online /\ Registered(rop.type) # <<>>
            /\ devices[rop.type].online) => rop.name \in ops

C24_AsStated ==
    loader.stage = "write" => ManualDecision(devices, config[loader.i]) = "add"

(* The device list *)

\* the place of a device type in the list: light, fan, distance, motion, then the others
ListRank(device_type) ==
    CASE device_type = "light" -> 1
      [] device_type = "fan" -> 2
      [] device_type = "distance" -> 3
      [] device_type = "motion" -> 4
      [] OTHER -> 5

\* the list holds every registered device once and nothing else, the four known
\* types first and in their fixed order
ListWellFormed ==
    LET listed == DeviceListForDisplay(devices, order) IN
    /\ \A d \in DOMAIN devices : Cardinality({i \in DOMAIN listed : listed[i] = d}) = 1
    /\ \A i \in DOMAIN listed : listed[i] \in DOMAIN devices
    /\ \A i, j \in DOMAIN listed : i < j => ListRank(listed[i]) <= ListRank(listed[j])

\* handle_command on connect_numbered: the state changes only to the connected state of
\* the entry at the 0-based index of the list, and does so when that entry is online
NumberedResolvesAgainstList ==
    (pc = "command" /\ pc' = "poll" /\ result.action = "connect_numbered") =>
        LET listed == DeviceListForDisplay(devices, order)
            i == result.data.index
            InRange == 0 <= i /\ i < Len(listed)
        IN /\ current_state' # current_state =>
                  InRange /\ current_state' = ConnectToDevice(listed[i + 1])
           /\ (InRange /\ IsDeviceOnlineOf(mock, devices, listed[i + 1], now).ret) =>
                  current_state' = ConnectToDevice(listed[i + 1])

\* C25: the device list shows the registered devices in the fixed order light, fan,
\* distance, motion, then the others, each once, and connect_numbered resolves its
\* index against that same list: with light and fan listed, index 1 selects the fan.
C25_ListOrderAndNumbered ==
    [](ListWellFormed) /\ [][NumberedResolvesAgainstList]_vars

\* index 1 has connected to the fan, listed second after the light although it was
\* registered first
C25_Witness ==
    /\ mop = "command"
    /\ result.action = "connect_numbered"
    /\ result.data.index = 1
    /\ current_state = "CONNECTED_FAN"
    /\ Len(order) >= 2 /\ order[1] = "fan"
    /\ Len(DeviceListForDisplay(devices, order)) >= 2
    /\ DeviceListForDisplay(devices, order)[1] = "light"
    /\ DeviceListForDisplay(devices, order)[2] = "fan"

\* C27 as stated: in DEVICE_LIST, after any number of up and down scrolls, 'connect'
\* connects to the currently highlighted device, the entry of the list at
\* device_cursor, and to no other.
C27_AsStated ==
    [][(pc = "command" /\ pc' = "poll" /\ result.action = "connect_current") =>
          LET listed == DeviceListForDisplay(devices, order) IN
          device_cursor < Len(listed) =>
              current_state' = ConnectToDevice(listed[device_cursor + 1])]_vars

(* The orchestrator: screens, failures, teardown *)

\* C26 as stated: once the orchestrator has handled a transcript or a timeout the display
\* shows the screen of the parser's current state: a state change returned by parse() or
\* check_timeout() re-renders the screen of the resulting state, whichever of the 13
\* states it is, and an unrecognized transcript shows the 'not recognized' text and then
\* the screen of the current state again.
C26_AsStated ==
    /\ (mop = "check_timeout" /\ pc = "listen" /\ timeout_result # None) =>
           screen = ScreenOfState(current_state)
    /\ (mop = "parse" /\ pc = "poll" /\ result.new_state # None) =>
           screen = ScreenOfState(current_state)
    /\ (mop = "parse" /\ pc = "restore") => screen = "not_recognized"
    /\ (mop = "restore" /\ pc = "poll") => screen = ScreenOfState(current_state)

\* C28 as stated: a failure while one interrupt, one timeout or one transcript is handled
\* never ends the main loop: the loop is left only on a shutdown signal.
C28_AsStated == pc \in {"finally", "stopped"} => cause = "signal"

\* C29 as stated: when the loop exits on a shutdown signal the teardown runs once and in
\* the order display cleared, display connection released, registry background tasks
\* stopped, interrupt queue drained and stopped; afterwards the interrupt channel holds
\* no pending interrupt and accepts none.
C29_AsStated ==
    (pc = "stopped" /\ cause = "signal") =>
        /\ teardown = <<"display.clear", "display.disconnect", "registry.stop",
                        "interrupt_manager.stop">>
        /\ queue = <<>>
        /\ ~(qop.name = "push" /\ qop.ret = "True")

(* The background rescan *)

\* no round was begun with the stop event set, at most one worker was ever started,
\* and none in mock mode
ScanWorkerSafe ==
    /\ ~scan.late
    /\ scan.started <= 1
    /\ mock => scan.started = 0 /\ scan.thread = "none"

\* C30: the background rescan is cancellable: once stop() has set the stop event the
\* worker begins no further round and eventually terminates; start_background_scan()
\* starts at most one worker however often it is called, and none in mock mode.
C30_RescanCancellable ==
    /\ [](ScanWorkerSafe)
    /\ (scan.stop_event /\ scan.thread # "none") ~> (scan.thread = "done")

\* start_background_scan() was called twice and started one worker, which ran a round
\* and has terminated after stop()
C30_Witness ==
    /\ scan.calls = 2
    /\ scan.started = 1
    /\ scan.stop_event
    /\ scan.thread = "done"
    /\ rop.name = "scan_round"

(* The todo store *)

\* C31 as stated: an action in a ParseResult is executed by the orchestrator also when
\* the result carries a new_state: once 'confirm' in TODO_ADD with captured text t has
\* been handled, the todo store has been asked to add t and the parser is in TODO_LIST.
C31_AsStated ==
    (mop = "parse" /\ pc = "poll" /\ result.action = "add_todo") =>
        /\ current_state = "TODO_LIST"
        /\ top.name = "add"
        /\ top.text = result.data.text

\* the latest TodoList operation called save() and save() returned False
SaveFailed ==
    /\ ~top.saved
    /\ CASE top.name = "add" -> top.text # EmptyStr
         [] top.name = "cross" ->
               /\ IsValidCursor(top.todos, top.cursor_index)
               /\ ~top.todos[top.cursor_index + 1].done
         [] top.name = "uncross" ->
               /\ IsValidCursor(top.todos, top.cursor_index)
               /\ top.todos[top.cursor_index + 1].done
         [] top.name = "remove_current" -> IsValidCursor(top.todos, top.cursor_index)
         [] OTHER -> FALSE

\* C38 as stated: when save() fails during add, cross, uncross or remove_current the
\* method returns False, the items and the cursor are as they were before the call,
\* and the cursor is a valid index (or 0 for an empty list).
C38_AsStated ==
    SaveFailed =>
        /\ ~top.ret
        /\ todos = top.todos
        /\ cursor_index = top.cursor_index
        /\ IsValidCursor(todos, cursor_index) \/ (todos = <<>> /\ cursor_index = 0)

(* Parser: the todo states *)

TodoStates == {"TODO_MENU", "TODO_LIST", "TODO_ADD", "TODO_INSTRUCTIONS"}

C39_AddTodoCarriesLatestDictation ==
    /\ (op = "parse" /\ result.action = "add_todo") =>
           /\ pre.state = "TODO_ADD"
           /\ dictated.text # EmptyStr
           /\ result.data = [text |-> Heard(dictated.text)]
    /\ (current_state = "TODO_ADD" /\ dictated.text = EmptyStr) =>
           "captured_text" \notin DOMAIN state_data

\* C39 witness: a visit that had last been dictated 'todo' came to an end, the next
\* visit was dictated 'iris buy milk', and its 'confirm' carried 'buy milk'
C39_Witness ==
    /\ op = "parse"
    /\ pre.state = "TODO_ADD"
    /\ pre.input = S_confirm
    /\ dictated = [text |-> S_iris_buy_milk, earlier |-> S_todo]
    /\ result = ParseResult("TODO_LIST", "add_todo", [text |-> S_buy_milk])

\* a state's handler has a rule for the transcript t it receives
HasRule(state, t) ==
    CASE state = "IDLE" -> Contains(t, S_hey_iris)
      [] state = "MAIN_MENU" -> MainMenuTarget(t) # None
      [] state = "TODO_MENU" ->
            t \in {S_list, S_1, S_one, S_add, S_2, S_two, S_instructions, S_3, S_three}
      [] state = "TODO_INSTRUCTIONS" -> t = S_back
      [] state = "TODO_LIST" -> t \in {S_up, S_down, S_cross, S_uncross, S_add, S_back}
      [] state = "DEVICE_LIST" ->
            \/ t \in {S_up, S_down, S_connect, S_back}
            \/ StartsWith(t, S_connect_)
            \/ \E p \in Spoken : t = p[1]
      [] state \in ConnectedStates -> t = S_back \/ ConnectedAction(state, t) # None
      [] OTHER -> TRUE

\* C40: in every state but TODO_ADD and TRANSLATION, a transcript for which the
\* state's handler has no rule is ignored by the parser: parse() returns an empty
\* ParseResult and leaves current_state and the per-state data as they were.
C40_UnmatchedIgnored ==
    (/\ op = "parse"
     /\ pre.state \notin {"TODO_ADD", "TRANSLATION"}
     /\ ~HasRule(pre.state, Heard(pre.input))) =>
        /\ result = EmptyResult
        /\ current_state = pre.state
        /\ state_data = pre.data

\* C40 witness: 'buy milk' was said on the instructions screen, with per-state data
\* present, and nothing changed
C40_Witness ==
    /\ op = "parse"
    /\ pre.state = "TODO_INSTRUCTIONS"
    /\ pre.input = S_buy_milk
    /\ pre.data # NoData
    /\ result = EmptyResult
    /\ current_state = "TODO_INSTRUCTIONS"
    /\ state_data = pre.data

(* The device cursor *)

\* the largest index the device list has (0 when the list is empty)
LastListed ==
    LET n == Len(DeviceListForDisplay(devices, order)) IN IF n > 0 THEN n - 1 ELSE 0

\* C37: the device cursor stays within the list: 0 <= device_cursor <= max(0, number
\* of listed devices - 1) in every state, whatever was scrolled and whichever state
\* changes took place; scroll_up handled at the first entry and scroll_down handled at
\* the last entry leave the cursor where it is.
C37_DeviceCursorBound ==
    /\ [](0 <= device_cursor /\ device_cursor <= LastListed)
    /\ [][(pc = "command" /\ pc' = "poll") =>
             /\ (result.action = "scroll_up" /\ device_cursor = 0) => device_cursor' = 0
             /\ (result.action = "scroll_down" /\ device_cursor = LastListed) =>
                    device_cursor' = device_cursor]_vars

\* C37 witness: with three devices listed and the cursor on the last one, 'down' has
\* been handled in DEVICE_LIST and the cursor is on the last one still
C37_Witness ==
    /\ mop = "command"
    /\ current_state = "DEVICE_LIST"
    /\ result.action = "scroll_down"
    /\ Len(DeviceListForDisplay(devices, order)) = 3
    /\ device_cursor = 2

(* Connecting *)

\* the device type a connected state belongs to
TypeOfConnected(state) == CHOOSE d \in DeviceTypes : ConnectToDevice(d) = state

\* C32 as stated: the parser enters a CONNECTED_<type> state only from DEVICE_LIST,
\* through a connect action that handle_command is handling, and only when the
\* registry holds the device of that type and reports it online at that moment.
C32_AsStated ==
    [][(current_state' \in ConnectedStates /\ current_state' # current_state) =>
          /\ current_state = "DEVICE_LIST"
          /\ pc = "command"
          /\ result.action \in ConnectActions
          /\ TypeOfConnected(current_state') \in DOMAIN devices
          /\ IsDeviceOnlineOf(mock, devices, TypeOfConnected(current_state'), now).ret]_vars

(* The listener against the scan's manual load *)

\* C35 as stated: whichever way the listener thread recording a sighting and the scan
\* thread loading the manual devices interleave, the manual entry never overwrites the
\* record of a live sighting: once the manual load has stored its record for a type
\* that a sighting had recorded online, the type holds the sighted address.
C35_AsStated ==
    (/\ rop.name = "load_manual"
     /\ rop.before # <<>>
     /\ rop.before[1].online
     /\ rop.before[1].ip \in Addresses) =>
        /\ rop.type \in DOMAIN devices
        /\ devices[rop.type].ip = rop.before[1].ip

(* The motion overlay *)

\* C36 as stated: the motion overlay is timed: once a motion interrupt has been handled
\* and nothing more comes in, the display leaves the overlay and shows the screen of the
\* parser's current state again; and handling the interrupt changes neither the parser
\* state nor its per-state data.
C36_AsStated ==
    /\ (screen = "motion_interrupt") ~> (screen = ScreenOfState(current_state))
    /\ [][mop' = "handle_interrupt" => UNCHANGED <<current_state, state_data>>]_vars

(* Idle timeouts in the main loop *)

\* the user has fallen silent: audio.listen() returns no transcript any more
Silent == now >= TimeoutSeconds

====
